---- MODULE Spec2Model ----
(***************************************************************************)
(* DistriChat: consistent-hash ring (pkg/ring), two-level LRU cache        *)
(* (pkg/cache), smart client with failover (cmd/client) and chat server.   *)
(*                                                                         *)
(* Nine specifications share this module:                                  *)
(*   CacheSpec     the HierarchicalCache of one server, used by threads    *)
(*   CacheNoClearSpec  the same cache in the runs that never call Clear    *)
(*   RingSpec      the HashRing under AddNode / RemoveNode / lookups       *)
(*   RingLockSpec  the HashRing called by concurrent goroutines, with the  *)
(*                 steps each call takes while it holds hr.mu              *)
(*   RouterSpec    the SmartClient with its ring, connections and servers: *)
(*                 one goroutine in SendMessage, one that registers and    *)
(*                 removes, while servers are marked, stopped, started     *)
(*   ProbeSpec     the SmartClient under registration, marking and the     *)
(*                 queries GetTargetServer and HealthCheck, without sends  *)
(*   BackendSpec   the SmartClient in front of a ChatServer whose cache    *)
(*                 handles the requests that reach its PostMessage         *)
(*   ConcurrentSpec  the SmartClient with two goroutines in SendMessage    *)
(*   DialSpec      two goroutines calling every method of a SmartClient    *)
(*                 that has one server to register                         *)
(* The methods of the SmartClient take one step per critical section of    *)
(* c.mu, per unlocked read of a connection and per network wait, and two   *)
(* for a critical section that writes a connection and then the ring.      *)
(* Each one leaves the variables of the components it does not use at      *)
(* their initial values; RouterSpec drives the ring of its SmartClient.    *)
(***************************************************************************)
EXTENDS Integers, Sequences, FiniteSets, TLC

VARIABLES
    \* ---- pkg/cache: HierarchicalCache ----
    l1Capacity,   \* c.l1Capacity
    l2Capacity,   \* c.l2Capacity
    l1Cache,      \* c.l1Cache: chatID -> session object (index into sessions)
    l1List,       \* c.l1List: chat ids, front (most recent) first
    l2Cache,      \* c.l2Cache
    l2List,       \* c.l2List
    stats,        \* c.stats (CacheStats)
    sessions,     \* the heap: the *ChatSession objects still referenced
    mu,           \* c.mu: "unlocked", or "locked" by a call that never returns
    pc,           \* per calling goroutine: where it is
    held,         \* per goroutine: locals of AddMessage between its two sections
    ret,          \* what the last completed call returned
    \* ---- pkg/ring: HashRing ----
    nodes,        \* hr.nodes: the virtual nodes, in stored order
    nodeCapacity, \* hr.nodeCapacity: node id -> number of virtual nodes
    nodeAddress,  \* hr.nodeAddress: node id -> network address
    replicas,     \* hr.replicas
    ringRet,      \* the last ring call and what it returned
    hrmu,         \* hr.mu: the goroutine that holds Lock, and those holding RLock
    wpc,          \* per writing goroutine: where its AddNode / RemoveNode is
    wloc,         \* per writing goroutine: the arguments and locals of its call
    rpc,          \* per reading goroutine: where its GetNode / GetNodes is
    rloc,         \* per reading goroutine: its call and what it returned
    \* ---- cmd/client: SmartClient, and the servers it talks to ----
    connections,  \* c.connections: address -> serverConnection
    detached,     \* the serverConnection objects that left c.connections and
                  \* that a call in progress still holds
    cmu,          \* c.mu: the goroutine that holds Lock, and those holding RLock
    clientStats,  \* c.stats (ClientStats)
    srv,          \* per address: the ChatServer there is "up", "stopping" or "down"
    spc,          \* per calling goroutine: where its call is
    sloc,         \* per calling goroutine: the locals of its call
    routerRet,    \* the last completed SendMessage and what it returned
    probeRet      \* the last GetTargetServer or HealthCheck and what it returned

cacheVars == <<l1Capacity, l2Capacity, l1Cache, l1List, l2Cache, l2List,
               stats, sessions, mu, pc, held, ret>>
ringVars == <<nodes, nodeCapacity, nodeAddress, replicas, ringRet>>

clientVars == <<connections, detached, cmu, clientStats, srv, spc, sloc, routerRet,
                probeRet>>

lockVars == <<hrmu, wpc, wloc, rpc, rloc>>

vars == <<cacheVars, ringVars, clientVars, lockVars>>
nonCacheVars == <<ringVars, clientVars, lockVars>>
nonRingVars == <<cacheVars, clientVars, lockVars>>

-----------------------------------------------------------------------------
(* Generic helpers for Go maps and container/list.                         *)

None == "none"

Put(m, k, v) == [x \in (DOMAIN m) \cup {k} |-> IF x = k THEN v ELSE m[x]]
Del(m, k) == [x \in (DOMAIN m) \ {k} |-> m[x]]
EmptyMap == [x \in {} |-> None]

Back(list) == list[Len(list)]
RemoveElem(list, e) == SelectSeq(list, LAMBDA x : x # e)
PushFront(list, e) == <<e>> \o list
MoveToFront(list, e) == <<e>> \o RemoveElem(list, e)
SeqToSet(s) == {s[i] : i \in 1..Len(s)}

-----------------------------------------------------------------------------
(* pkg/cache                                                               *)

\* Bounds of the cache model.
MaxCap == 2          \* capacities are drawn from 0..MaxCap
MaxRequests == 3     \* GetOrCreate/AddMessage calls per run

ChatIDs == {"a", "b", "c"}
\* The message a new AddMessage call posts: messages are numbered by the
\* request that carries them, so every posted message is distinct.
Msgs == {stats.TotalRequests + 1}
Threads == {"t1", "t2"}

LevelL1 == "L1"
\* Mutant of LevelL2: a hit in L2 reports the tier the session is moved to.
LevelL2Promoted == "L1"
LevelL2 == "L2"
LevelMiss == "MISS"

\* CacheStats zero value.
ZeroStats == [TotalRequests |-> 0, CacheHits |-> 0, CacheMisses |-> 0,
              L1Hits |-> 0, L2Hits |-> 0, Evictions |-> 0, Demotions |-> 0]

\* The HierarchicalCache struct as one record; spin marks a call stuck in a
\* capacity loop that can make no progress (it holds c.mu for ever).
Cache == [l1Capacity |-> l1Capacity, l2Capacity |-> l2Capacity,
          l1Cache |-> l1Cache, l1List |-> l1List,
          l2Cache |-> l2Cache, l2List |-> l2List,
          stats |-> stats, spin |-> FALSE]

NewHierarchicalCache(cap1, cap2) ==
    [l1Capacity |-> cap1, l2Capacity |-> cap2,
     l1Cache |-> EmptyMap, l1List |-> <<>>,
     l2Cache |-> EmptyMap, l2List |-> <<>>,
     stats |-> ZeroStats, spin |-> FALSE]

\* len(c.l1Cache), len(c.l2Cache)
LenL1(c) == Cardinality(DOMAIN c.l1Cache)
LenL2(c) == Cardinality(DOMAIN c.l2Cache)

evictFromL2(c) ==
    IF c.l2List = <<>> THEN c
    ELSE LET chatID == Back(c.l2List) IN
         [c EXCEPT !.l2List = RemoveElem(@, chatID),
                   !.l2Cache = Del(@, chatID),
                   !.stats.Evictions = @ + 1]

\* for len(c.l2Cache) >= c.l2Capacity { c.evictFromL2() }
\* An iteration that changes nothing leaves the condition true: the loop
\* never ends.
RECURSIVE addToL2Loop(_)
addToL2Loop(c) ==
    IF LenL2(c) >= c.l2Capacity
    THEN LET d == evictFromL2(c) IN
         IF d = c THEN [c EXCEPT !.spin = TRUE] ELSE addToL2Loop(d)
    ELSE c

addToL2(c, chatID, session) ==
    LET d == addToL2Loop(c) IN
    IF d.spin THEN d
    ELSE [d EXCEPT !.l2List = PushFront(@, chatID),
                   !.l2Cache = Put(@, chatID, session)]

\* Mutant of demoteFromL1: the entry moved to L2 is that of the front of L1.
demoteFromL1WrongEntry(c) ==
    IF c.l1List = <<>> THEN c
    ELSE LET chatID == Back(c.l1List)
             entry == c.l1Cache[Head(c.l1List)]
             c1 == [c EXCEPT !.l1List = RemoveElem(@, chatID),
                             !.l1Cache = Del(@, chatID),
                             !.stats.Demotions = @ + 1]
         IN addToL2(c1, chatID, entry)

demoteFromL1(c) ==
    IF c.l1List = <<>> THEN c
    ELSE LET chatID == Back(c.l1List)
             entry == c.l1Cache[chatID]
             c1 == [c EXCEPT !.l1List = RemoveElem(@, chatID),
                             !.l1Cache = Del(@, chatID),
                             !.stats.Demotions = @ + 1]
         IN addToL2(c1, chatID, entry)

\* Mutant of addToL1Loop: a full L1 is emptied by two entries, not one.
addToL1LoopTwice(c) ==
    IF LenL1(c) >= c.l1Capacity
    THEN LET d == demoteFromL1(c) IN
         IF d.spin THEN d
         ELSE IF d = c THEN [c EXCEPT !.spin = TRUE]
         ELSE IF d.l1List # <<>> THEN demoteFromL1(d)
         ELSE d
    ELSE c

\* Mutant of addToL1Loop: the capacity test is off by one (> for >=).
RECURSIVE addToL1LoopOffByOne(_)
addToL1LoopOffByOne(c) ==
    IF LenL1(c) > c.l1Capacity
    THEN LET d == demoteFromL1(c) IN
         IF d.spin THEN d
         ELSE IF d = c THEN [c EXCEPT !.spin = TRUE]
         ELSE addToL1LoopOffByOne(d)
    ELSE c

\* for len(c.l1Cache) >= c.l1Capacity { c.demoteFromL1() }
RECURSIVE addToL1Loop(_)
addToL1Loop(c) ==
    IF LenL1(c) >= c.l1Capacity
    THEN LET d == demoteFromL1(c) IN
         IF d.spin THEN d
         ELSE IF d = c THEN [c EXCEPT !.spin = TRUE]
         ELSE addToL1Loop(d)
    ELSE c

addToL1(c, chatID, session) ==
    LET d == addToL1Loop(c) IN
    IF d.spin THEN d
    ELSE [d EXCEPT !.l1List = PushFront(@, chatID),
                   !.l1Cache = Put(@, chatID, session)]

\* Mutant of promoteToL1: the entry is removed from L2 after the insertion
\* into L1, not before it.
promoteToL1InsertFirst(c, chatID, entry) ==
    LET c1 == addToL1(c, chatID, entry) IN
    IF c1.spin THEN c1
    ELSE [c1 EXCEPT !.l2List = RemoveElem(@, chatID),
                    !.l2Cache = Del(@, chatID)]

\* Mutant of promoteToL1: the entry is not removed from L2.
promoteToL1KeepL2(c, chatID, entry) == addToL1(c, chatID, entry)

promoteToL1(c, chatID, entry) ==
    LET c1 == [c EXCEPT !.l2List = RemoveElem(@, chatID),
                        !.l2Cache = Del(@, chatID)]
    IN addToL1(c1, chatID, entry)

\* &ChatSession{ChatID: chatID, Messages: make([]Message, 0), MessageCount: 0}
NewSession(chatID) == [ChatID |-> chatID, Messages |-> <<>>, MessageCount |-> 0]

\* The address of a freshly allocated object: any address not in use.
NewRef(h) == CHOOSE i \in 1..(Cardinality(DOMAIN h) + 1) : i \notin DOMAIN h

\* Mutant of getOrCreate: a hit in L2 is not counted in CacheHits.
getOrCreateL2Uncounted(c, h, chatID) ==
    LET c0 == [c EXCEPT !.stats.TotalRequests = @ + 1] IN
    IF chatID \in DOMAIN c0.l1Cache
    THEN [c |-> [c0 EXCEPT !.stats.CacheHits = @ + 1,
                           !.stats.L1Hits = @ + 1,
                           !.l1List = MoveToFront(@, chatID)],
          h |-> h, session |-> c0.l1Cache[chatID], level |-> LevelL1]
    ELSE IF chatID \in DOMAIN c0.l2Cache
    THEN [c |-> promoteToL1([c0 EXCEPT !.stats.L2Hits = @ + 1],
                            chatID, c0.l2Cache[chatID]),
          h |-> h, session |-> c0.l2Cache[chatID], level |-> LevelL2]
    ELSE [c |-> addToL1([c0 EXCEPT !.stats.CacheMisses = @ + 1],
                        chatID, NewRef(h)),
          h |-> Put(h, NewRef(h), NewSession(chatID)),
          session |-> NewRef(h), level |-> LevelMiss]

\* The critical section of GetOrCreate on cache c with heap h:
\* the cache after it, the heap after it, the session and level returned.
getOrCreate(c, h, chatID) ==
    LET c0 == [c EXCEPT !.stats.TotalRequests = @ + 1] IN
    IF chatID \in DOMAIN c0.l1Cache
    THEN [c |-> [c0 EXCEPT !.stats.CacheHits = @ + 1,
                           !.stats.L1Hits = @ + 1,
                           !.l1List = MoveToFront(@, chatID)],
          h |-> h, session |-> c0.l1Cache[chatID], level |-> LevelL1]
    ELSE IF chatID \in DOMAIN c0.l2Cache
    THEN [c |-> promoteToL1([c0 EXCEPT !.stats.CacheHits = @ + 1,
                                       !.stats.L2Hits = @ + 1],
                            chatID, c0.l2Cache[chatID]),
          h |-> h, session |-> c0.l2Cache[chatID], level |-> LevelL2]
    ELSE [c |-> addToL1([c0 EXCEPT !.stats.CacheMisses = @ + 1],
                        chatID, NewRef(h)),
          h |-> Put(h, NewRef(h), NewSession(chatID)),
          session |-> NewRef(h), level |-> LevelMiss]

\* Write a cache record back to the variables.
SetCache(c) ==
    /\ l1Cache' = c.l1Cache
    /\ l1List' = c.l1List
    /\ l2Cache' = c.l2Cache
    /\ l2List' = c.l2List
    /\ stats' = c.stats
    /\ UNCHANGED <<l1Capacity, l2Capacity>>

NoHeld == [chatID |-> None, msg |-> None, session |-> 0, level |-> None]
NoRet == [op |-> None, chatID |-> None, session |-> 0, level |-> None, ok |-> FALSE]

Range(m) == {m[x] : x \in DOMAIN m}

\* The heap h without the objects that neither cache c nor the locals hl of a
\* call in progress reference any more (the garbage collector frees them).
Collect(h, c, hl) ==
    LET live == Range(c.l1Cache) \cup Range(c.l2Cache) \cup {hl[t].session : t \in Threads}
    IN [s \in (DOMAIN h) \cap live |-> h[s]]

\* A cache no call has touched (the state of the cache variables in the
\* specifications of the other components is CacheIdle).
CacheFresh(cap1, cap2) ==
    /\ l1Capacity = cap1
    /\ l2Capacity = cap2
    /\ l1Cache = NewHierarchicalCache(cap1, cap2).l1Cache
    /\ l1List = NewHierarchicalCache(cap1, cap2).l1List
    /\ l2Cache = NewHierarchicalCache(cap1, cap2).l2Cache
    /\ l2List = NewHierarchicalCache(cap1, cap2).l2List
    /\ stats = NewHierarchicalCache(cap1, cap2).stats
    /\ sessions = EmptyMap
    /\ mu = "unlocked"
    /\ pc = [t \in Threads |-> "idle"]
    /\ held = [t \in Threads |-> NoHeld]
    /\ ret = NoRet

\* c.GetOrCreate(chatID) called by goroutine t, as one critical section.
GetOrCreate(t, chatID) ==
    /\ pc[t] = "idle"
    /\ mu = "unlocked"
    /\ stats.TotalRequests < MaxRequests
    /\ LET r == getOrCreate(Cache, sessions, chatID) IN
       /\ SetCache(r.c)
       /\ IF r.c.spin
          THEN /\ mu' = "locked"
               /\ pc' = [pc EXCEPT ![t] = "spin"]
               /\ sessions' = Collect(sessions, r.c, held)
               /\ UNCHANGED ret
          ELSE /\ sessions' = Collect(r.h, r.c, held)
               /\ ret' = [op |-> "GetOrCreate", chatID |-> chatID,
                          session |-> r.session, level |-> r.level, ok |-> TRUE]
               /\ UNCHANGED <<mu, pc>>
    /\ UNCHANGED held
    /\ UNCHANGED nonCacheVars

\* c.AddMessage(chatID, msg), first part: session, level := c.GetOrCreate(chatID)
AddMessageGet(t, chatID, msg) ==
    /\ pc[t] = "idle"
    /\ mu = "unlocked"
    /\ stats.TotalRequests < MaxRequests
    /\ LET r == getOrCreate(Cache, sessions, chatID) IN
       /\ SetCache(r.c)
       /\ IF r.c.spin
          THEN /\ mu' = "locked"
               /\ pc' = [pc EXCEPT ![t] = "spin"]
               /\ sessions' = Collect(sessions, r.c, held)
               /\ UNCHANGED held
          ELSE /\ pc' = [pc EXCEPT ![t] = "append"]
               /\ held' = [held EXCEPT ![t] = [chatID |-> chatID, msg |-> msg,
                                               session |-> r.session, level |-> r.level]]
               /\ sessions' = Collect(r.h, r.c, held')
               /\ UNCHANGED mu
    /\ UNCHANGED ret
    /\ UNCHANGED nonCacheVars

\* Mutant of appendMessage: the message is put in front of the others.
appendMessagePrepend(h, s, msg) ==
    [h EXCEPT ![s].Messages = <<msg>> \o @, ![s].MessageCount = @ + 1]

\* Mutant of appendMessage: MessageCount is not updated.
appendMessageNoCount(h, s, msg) ==
    [h EXCEPT ![s].Messages = Append(@, msg)]

\* The append to the session object s of the heap h.
appendMessage(h, s, msg) ==
    [h EXCEPT ![s].Messages = Append(@, msg), ![s].MessageCount = @ + 1]

\* c.AddMessage, second part: c.mu.Lock(); append; return session, level, nil
AddMessageAppend(t) ==
    /\ pc[t] = "append"
    /\ mu = "unlocked"
    /\ ret' = [op |-> "AddMessage", chatID |-> held[t].chatID,
               session |-> held[t].session, level |-> held[t].level, ok |-> TRUE]
    /\ pc' = [pc EXCEPT ![t] = "idle"]
    /\ held' = [held EXCEPT ![t] = NoHeld]
    /\ sessions' = Collect(appendMessage(sessions, held[t].session, held[t].msg),
                           Cache, held')
    /\ UNCHANGED <<l1Capacity, l2Capacity, l1Cache, l1List, l2Cache, l2List, stats, mu>>
    /\ UNCHANGED nonCacheVars

\* What GetSession returns on cache c.
getSession(c, chatID) ==
    IF chatID \in DOMAIN c.l1Cache
    THEN [session |-> c.l1Cache[chatID], level |-> LevelL1, ok |-> TRUE]
    ELSE IF chatID \in DOMAIN c.l2Cache
    THEN [session |-> c.l2Cache[chatID], level |-> LevelL2, ok |-> TRUE]
    ELSE [session |-> 0, level |-> LevelMiss, ok |-> FALSE]

\* Mutant of GetSession: a session found in L1 is moved to the front.
GetSessionTouching(t, chatID) ==
    /\ pc[t] = "idle"
    /\ mu = "unlocked"
    /\ LET r == getSession(Cache, chatID) IN
       ret' = [op |-> "GetSession", chatID |-> chatID,
               session |-> r.session, level |-> r.level, ok |-> r.ok]
    /\ l1List' = IF chatID \in DOMAIN l1Cache THEN MoveToFront(l1List, chatID)
                 ELSE l1List
    /\ UNCHANGED <<l1Capacity, l2Capacity, l1Cache, l2Cache, l2List,
                   stats, sessions, mu, pc, held>>
    /\ UNCHANGED nonCacheVars

GetSession(t, chatID) ==
    /\ pc[t] = "idle"
    /\ mu = "unlocked"
    /\ LET r == getSession(Cache, chatID) IN
       ret' = [op |-> "GetSession", chatID |-> chatID,
               session |-> r.session, level |-> r.level, ok |-> r.ok]
    /\ UNCHANGED <<l1Capacity, l2Capacity, l1Cache, l1List, l2Cache, l2List,
                   stats, sessions, mu, pc, held>>
    /\ UNCHANGED nonCacheVars

\* The orders in which a range over a Go map with key set S can yield the
\* keys: the iteration order of a map is unspecified.
Orders(S) == {f \in [1..Cardinality(S) -> S] : \A i, j \in DOMAIN f : i # j => f[i] # f[j]}

\* The CacheInfo that GetCacheInfo returns on cache c when its two range
\* loops yield the keys in the orders l1Chats and l2Chats.
getCacheInfo(c, l1Chats, l2Chats) ==
    [op |-> "GetCacheInfo",
     L1Size |-> LenL1(c), L1Capacity |-> c.l1Capacity,
     L2Size |-> LenL2(c), L2Capacity |-> c.l2Capacity,
     L1Chats |-> l1Chats, L2Chats |-> l2Chats, Stats |-> c.stats]

GetCacheInfo(t) ==
    /\ pc[t] = "idle"
    /\ mu = "unlocked"
    /\ \E l1Chats \in Orders(DOMAIN l1Cache), l2Chats \in Orders(DOMAIN l2Cache) :
           ret' = getCacheInfo(Cache, l1Chats, l2Chats)
    /\ UNCHANGED <<l1Capacity, l2Capacity, l1Cache, l1List, l2Cache, l2List,
                   stats, sessions, mu, pc, held>>
    /\ UNCHANGED nonCacheVars

\* Mutant of clear: only the first tier is emptied.
clearL1Only(c) == [c EXCEPT !.l1Cache = EmptyMap, !.l1List = <<>>]

clear(c) == [c EXCEPT !.l1Cache = EmptyMap, !.l1List = <<>>,
                      !.l2Cache = EmptyMap, !.l2List = <<>>]

Clear(t) ==
    /\ pc[t] = "idle"
    /\ mu = "unlocked"
    /\ SetCache(clear(Cache))
    /\ ret' = [NoRet EXCEPT !.op = "Clear", !.ok = TRUE]
    /\ sessions' = Collect(sessions, clear(Cache), held)
    /\ UNCHANGED <<mu, pc, held>>
    /\ UNCHANGED nonCacheVars

CacheNext ==
    \/ \E t \in Threads, chatID \in ChatIDs : GetOrCreate(t, chatID)
    \/ \E t \in Threads, chatID \in ChatIDs, msg \in Msgs : AddMessageGet(t, chatID, msg)
    \/ \E t \in Threads : AddMessageAppend(t)
    \/ \E t \in Threads, chatID \in ChatIDs : GetSession(t, chatID)
    \/ \E t \in Threads : Clear(t)
    \/ \E t \in Threads : GetCacheInfo(t)


-----------------------------------------------------------------------------
(* pkg/ring                                                                *)
(* Strings that are hashed (node ids, keys) are sequences of bytes.  A     *)
(* uint32 is the pair <<high 16 bits, low 16 bits>>.                       *)

\* Bounds of the ring model.
MaxWeight == 2       \* AddNode capacities are drawn from 0..MaxWeight
Replicas == 2        \* the replicas argument of NewHashRing
MaxCount == 3        \* GetNodes counts are drawn from 0..MaxCount

\* Node ids: "uejgtcuo" and "iiwucoup" have the same CRC32, so their
\* virtual nodes collide pairwise; "B" collides with neither.
NodeU == <<117, 101, 106, 103, 116, 99, 117, 111>>
NodeI == <<105, 105, 119, 117, 99, 111, 117, 112>>
NodeB == <<66>>
NodeIDs == {NodeU, NodeI, NodeB}
Addresses == {"h1", "h2"}

\* Keys: "g", "s", "b0", "z", "y" and "B#0" (the key of a virtual node).
Keys == {<<103>>, <<115>>, <<98, 48>>, <<122>>, <<121>>, <<66, 35, 48>>}

RECURSIVE Xor(_, _)
Xor(a, b) ==
    IF a = 0 THEN b
    ELSE IF b = 0 THEN a
    ELSE ((a + b) % 2) + 2 * Xor(a \div 2, b \div 2)

U32Xor(x, y) == <<Xor(x[1], y[1]), Xor(x[2], y[2])>>
U32Shr1(x) == <<x[1] \div 2, (x[2] \div 2) + (x[1] % 2) * 32768>>
U32Less(x, y) == x[1] < y[1] \/ (x[1] = y[1] /\ x[2] < y[2])
U32Geq(x, y) == ~U32Less(x, y)

\* crc32.IEEE, reflected: 0xEDB88320; and 0xFFFFFFFF.
IEEEPoly == <<60856, 33568>>
AllOnes == <<65535, 65535>>

\* n shift-and-xor rounds of the bitwise CRC.
RECURSIVE crcBits(_, _)
crcBits(crc, n) ==
    IF n = 0 THEN crc
    ELSE crcBits(IF crc[2] % 2 = 1 THEN U32Xor(U32Shr1(crc), IEEEPoly)
                 ELSE U32Shr1(crc), n - 1)

\* crc32.IEEETable: the CRC of every byte value.
IEEETable == [b \in 0..255 |-> crcBits(<<0, b>>, 8)]

U32Shr8(x) == <<x[1] \div 256, (x[2] \div 256) + (x[1] % 256) * 256>>

\* crc = tab[byte(crc) ^ v] ^ (crc >> 8), for every byte v of p from index i on
RECURSIVE crcUpdate(_, _, _)
crcUpdate(crc, p, i) ==
    IF i > Len(p) THEN crc
    ELSE crcUpdate(U32Xor(IEEETable[Xor(crc[2] % 256, p[i])], U32Shr8(crc)), p, i + 1)

ChecksumIEEE(p) == U32Xor(crcUpdate(AllOnes, p, 1), AllOnes)

\* strconv of a non-negative int: its decimal digits.
RECURSIVE Itoa(_)
Itoa(n) == IF n < 10 THEN <<48 + n>> ELSE Itoa(n \div 10) \o <<48 + (n % 10)>>

\* fmt.Sprintf("%s#%d", nodeID, vNodeIdx)
virtualNodeKey(nodeID, vNodeIdx) == nodeID \o <<35>> \o Itoa(vNodeIdx)

\* The longest slice that package sort sorts by insertion alone.
maxInsertion == 12

\* The checksums of the strings this model hashes, computed once.
HashMemo ==
    [p \in Keys \cup {virtualNodeKey(n, i) : n \in NodeIDs,
                                             i \in 0..(MaxWeight + Replicas + maxInsertion)}
        |-> ChecksumIEEE(p)]

hashKey(key) == IF key \in DOMAIN HashMemo THEN HashMemo[key] ELSE ChecksumIEEE(key)

\* The HashRing struct as one record.
Ring == [nodes |-> nodes, nodeCapacity |-> nodeCapacity,
         nodeAddress |-> nodeAddress, replicas |-> replicas]

NewHashRing(r) ==
    [nodes |-> <<>>, nodeCapacity |-> EmptyMap, nodeAddress |-> EmptyMap,
     replicas |-> IF r < 1 THEN 100 ELSE r]

\* The less function AddNode gives sort.Slice.
lessByHash(x, y) == U32Less(x.Hash, y.Hash)

Swap(s, i, j) == [s EXCEPT ![i] = s[j], ![j] = s[i]]

\* for j := i; j > a && less(data[j], data[j-1]); j-- { swap(j, j-1) }
RECURSIVE insertBack(_, _)
insertBack(s, j) ==
    IF j > 1 /\ lessByHash(s[j], s[j - 1]) THEN insertBack(Swap(s, j, j - 1), j - 1)
    ELSE s

RECURSIVE insertionSort(_, _)
insertionSort(s, i) ==
    IF i > Len(s) THEN s ELSE insertionSort(insertBack(s, i), i + 1)

\* The sequences that hold each element of sequence s once.
Arrangements(s) ==
    {[i \in 1..Len(s) |-> s[f[i]]] :
        f \in {g \in [1..Len(s) -> 1..Len(s)] :
                  \A i, j \in 1..Len(s) : g[i] = g[j] => i = j}}

\* The length of the run of equal hashes at the head of sequence s, which
\* is at least n.
RECURSIVE runLength(_, _)
runLength(s, n) ==
    IF n < Len(s) /\ s[n + 1].Hash = s[1].Hash THEN runLength(s, n + 1) ELSE n

\* The orders by hash of the elements of s, itself in order by hash: the
\* elements of equal hash in any order.
RECURSIVE sortedOrders(_)
sortedOrders(s) ==
    IF s = <<>> THEN {<<>>}
    ELSE LET n == runLength(s, 1) IN
         {p \o t : p \in Arrangements(SubSeq(s, 1, n)),
                   t \in sortedOrders(SubSeq(s, n + 1, Len(s)))}

\* sort.Slice(hr.nodes, less), the slices it may leave: an insertion sort,
\* which keeps equal hashes in their order, for a slice of at most
\* maxInsertion elements; a longer slice is sorted by partitioning, "not
\* guaranteed to be stable: equal elements may be reversed from their
\* original order".
sortSlice(s) ==
    IF Len(s) <= maxInsertion THEN {insertionSort(s, 2)}
    ELSE sortedOrders(insertionSort(s, 2))

VirtualNode(nodeID, i) ==
    [Hash |-> hashKey(virtualNodeKey(nodeID, i)), NodeID |-> nodeID, VNodeIdx |-> i]

\* Mutant of addNode: a capacity below 1 becomes 1, not the default.
addNodeDefaultOne(r, nodeID, capacity, address) ==
    IF nodeID \in DOMAIN r.nodeCapacity THEN {r}
    ELSE LET cap == IF capacity < 1 THEN 1 ELSE capacity
             appended == r.nodes \o [i \in 1..cap |-> VirtualNode(nodeID, i - 1)]
         IN {[r EXCEPT !.nodeCapacity = Put(@, nodeID, cap),
                       !.nodeAddress = Put(@, nodeID, address),
                       !.nodes = sorted] : sorted \in sortSlice(appended)}

\* Mutant of addNode: no test for a node id that is already there.
addNodeAgain(r, nodeID, capacity, address) ==
    LET cap == IF capacity < 1 THEN r.replicas ELSE capacity
        appended == r.nodes \o [i \in 1..cap |-> VirtualNode(nodeID, i - 1)]
    IN {[r EXCEPT !.nodeCapacity = Put(@, nodeID, cap),
                  !.nodeAddress = Put(@, nodeID, address),
                  !.nodes = sorted] : sorted \in sortSlice(appended)}

\* AddNode: the rings it may leave, one for each order that sort.Slice may
\* leave the virtual nodes in.
addNode(r, nodeID, capacity, address) ==
    IF nodeID \in DOMAIN r.nodeCapacity THEN {r}
    ELSE LET cap == IF capacity < 1 THEN r.replicas ELSE capacity
             appended == r.nodes \o [i \in 1..cap |-> VirtualNode(nodeID, i - 1)]
         IN {[r EXCEPT !.nodeCapacity = Put(@, nodeID, cap),
                       !.nodeAddress = Put(@, nodeID, address),
                       !.nodes = sorted] : sorted \in sortSlice(appended)}

\* Mutant of removeNode: only the node's first virtual node is filtered out.
removeNodeFirstOnly(r, nodeID) ==
    IF nodeID \notin DOMAIN r.nodeCapacity THEN r
    ELSE [r EXCEPT !.nodes = SelectSeq(@, LAMBDA v : ~(v.NodeID = nodeID /\ v.VNodeIdx = 0)),
                   !.nodeCapacity = Del(@, nodeID),
                   !.nodeAddress = Del(@, nodeID)]

removeNode(r, nodeID) ==
    IF nodeID \notin DOMAIN r.nodeCapacity THEN r
    ELSE [r EXCEPT !.nodes = SelectSeq(@, LAMBDA v : v.NodeID # nodeID),
                   !.nodeCapacity = Del(@, nodeID),
                   !.nodeAddress = Del(@, nodeID)]

\* Mutant of Search: the test is hash > key hash instead of >=.
RECURSIVE SearchStrict(_, _, _, _)
SearchStrict(ns, hash, i, j) ==
    IF i < j
    THEN LET h == (i + j) \div 2 IN
         IF ~U32Less(hash, ns[h + 1].Hash) THEN SearchStrict(ns, hash, h + 1, j)
         ELSE SearchStrict(ns, hash, i, h)
    ELSE i

\* sort.Search(len(ns), func(i) { return ns[i].Hash >= hash }), started with
\* i = 0, j = len(ns); indices are 0-based as in Go.
RECURSIVE Search(_, _, _, _)
Search(ns, hash, i, j) ==
    IF i < j
    THEN LET h == (i + j) \div 2 IN
         IF ~U32Geq(ns[h + 1].Hash, hash) THEN Search(ns, hash, h + 1, j)
         ELSE Search(ns, hash, i, h)
    ELSE i

\* The index GetNode and GetNodes start from (0-based).
startIndex(r, key) ==
    LET idx == Search(r.nodes, hashKey(key), 0, Len(r.nodes)) IN
    IF idx >= Len(r.nodes) THEN 0 ELSE idx

NoNode == [nodeID |-> <<>>, address |-> "", ok |-> FALSE]

getNode(r, key) ==
    IF Len(r.nodes) = 0 THEN NoNode
    ELSE LET node == r.nodes[startIndex(r, key) + 1] IN
         [nodeID |-> node.NodeID, address |-> r.nodeAddress[node.NodeID], ok |-> TRUE]

\* Mutant of getNodesLoop: the seen map is not consulted.
RECURSIVE getNodesLoopNoSeen(_, _, _, _, _)
getNodesLoopNoSeen(r, startIdx, count, i, result) ==
    IF i < Len(r.nodes) /\ Len(result) < count
    THEN LET nodeID == r.nodes[((startIdx + i) % Len(r.nodes)) + 1].NodeID IN
         getNodesLoopNoSeen(r, startIdx, count, i + 1,
             Append(result, [NodeID |-> nodeID, Address |-> r.nodeAddress[nodeID]]))
    ELSE result

\* for i := 0; i < len(hr.nodes) && len(result) < count; i++ { ... }
\* seen is the set of node ids already in result.
RECURSIVE getNodesLoop(_, _, _, _, _)
getNodesLoop(r, startIdx, count, i, result) ==
    IF i < Len(r.nodes) /\ Len(result) < count
    THEN LET nodeID == r.nodes[((startIdx + i) % Len(r.nodes)) + 1].NodeID
             seen == {result[n].NodeID : n \in 1..Len(result)}
         IN getNodesLoop(r, startIdx, count, i + 1,
                IF nodeID \notin seen
                THEN Append(result, [NodeID |-> nodeID, Address |-> r.nodeAddress[nodeID]])
                ELSE result)
    ELSE result

getNodes(r, key, count) ==
    IF Len(r.nodes) = 0 THEN <<>>
    ELSE getNodesLoop(r, startIndex(r, key), count, 0, <<>>)

GetNodeCount(r) == Cardinality(DOMAIN r.nodeCapacity)
GetVirtualNodeCount(r) == Len(r.nodes)

SetRing(r) ==
    /\ nodes' = r.nodes
    /\ nodeCapacity' = r.nodeCapacity
    /\ nodeAddress' = r.nodeAddress
    /\ replicas' = r.replicas

NoRingRet == [op |-> None]

\* The owner of every key, as GetNode reports it.
Owners(r) == [k \in Keys |-> getNode(r, k).nodeID]

\* The goroutines that call the ring concurrently in RingLockSpec.
Writers == {"w1", "w2"}
Readers == {"r1"}

\* sync.RWMutex: nobody holds it.
Unlocked == [writer |-> None, readers |-> {}]
NoCall == [op |-> None]

RingFresh(r) ==
    /\ nodes = NewHashRing(r).nodes
    /\ nodeCapacity = NewHashRing(r).nodeCapacity
    /\ nodeAddress = NewHashRing(r).nodeAddress
    /\ replicas = NewHashRing(r).replicas
    /\ ringRet = NoRingRet
    /\ hrmu = Unlocked
    /\ wpc = [w \in Writers |-> "idle"]
    /\ wloc = [w \in Writers |-> NoCall]
    /\ rpc = [t \in Readers |-> "idle"]
    /\ rloc = [t \in Readers |-> NoCall]

AddNode(nodeID, capacity, address) ==
    /\ \E r \in addNode(Ring, nodeID, capacity, address) : SetRing(r)
    /\ ringRet' = [op |-> "AddNode", nodeID |-> nodeID, before |-> Ring]
    /\ UNCHANGED nonRingVars

RemoveNode(nodeID) ==
    /\ SetRing(removeNode(Ring, nodeID))
    /\ ringRet' = [op |-> "RemoveNode", nodeID |-> nodeID, before |-> Ring]
    /\ UNCHANGED nonRingVars

GetNode(key) ==
    /\ ringRet' = [op |-> "GetNode", key |-> key, result |-> getNode(Ring, key)]
    /\ UNCHANGED <<nodes, nodeCapacity, nodeAddress, replicas>>
    /\ UNCHANGED nonRingVars

GetNodes(key, count) ==
    /\ ringRet' = [op |-> "GetNodes", key |-> key, count |-> count,
                   result |-> getNodes(Ring, key, count)]
    /\ UNCHANGED <<nodes, nodeCapacity, nodeAddress, replicas>>
    /\ UNCHANGED nonRingVars

-----------------------------------------------------------------------------
(* The same calls as goroutines take them: every call holds hr.mu from its *)
(* first statement to its return, AddNode and RemoveNode exclusively,      *)
(* GetNode and GetNodes shared; a writer changes the ring statement by     *)
(* statement while it holds the lock.                                      *)

\* hr.mu.Lock() returns when no goroutine holds the mutex.
canLock(m) == m.writer = None /\ m.readers = {}

\* Mutant of canRLock: a reader does not wait for the writer.
canRLockAnyTime(m) == TRUE

\* hr.mu.RLock() returns when no goroutine holds the mutex exclusively.
canRLock(m) == m.writer = None

SetPc(f, t, l) == [f EXCEPT ![t] = l]

\* AddNode: Lock, and the test for a node that is already there.
AddNodeLock(w, nodeID, capacity, address) ==
    /\ wpc[w] = "idle"
    /\ canLock(hrmu)
    /\ hrmu' = [hrmu EXCEPT !.writer = w]
    /\ wloc' = [wloc EXCEPT ![w] = [op |-> "AddNode", nodeID |-> nodeID,
                                    capacity |-> capacity, address |-> address,
                                    i |-> 0, before |-> Ring]]
    /\ wpc' = SetPc(wpc, w, IF nodeID \in DOMAIN nodeCapacity
                            THEN "unlock" ELSE "entries")
    /\ UNCHANGED <<ringVars, rpc, rloc, cacheVars, clientVars>>

\* AddNode: the default capacity and the two map entries.
AddNodeEntries(w) ==
    /\ wpc[w] = "entries"
    /\ LET cap == IF wloc[w].capacity < 1 THEN replicas ELSE wloc[w].capacity IN
       /\ nodeCapacity' = Put(nodeCapacity, wloc[w].nodeID, cap)
       /\ nodeAddress' = Put(nodeAddress, wloc[w].nodeID, wloc[w].address)
       /\ wloc' = [wloc EXCEPT ![w].capacity = cap]
    /\ wpc' = SetPc(wpc, w, "append")
    /\ UNCHANGED <<nodes, replicas, ringRet, hrmu, rpc, rloc, cacheVars, clientVars>>

\* AddNode: one iteration of the loop that appends the virtual nodes.
AddNodeAppend(w) ==
    /\ wpc[w] = "append"
    /\ wloc[w].i < wloc[w].capacity
    /\ nodes' = Append(nodes, VirtualNode(wloc[w].nodeID, wloc[w].i))
    /\ wloc' = [wloc EXCEPT ![w].i = @ + 1]
    /\ UNCHANGED <<nodeCapacity, nodeAddress, replicas, ringRet, hrmu, wpc,
                   rpc, rloc, cacheVars, clientVars>>

\* AddNode: the loop is over, sort.Slice.
AddNodeSort(w) ==
    /\ wpc[w] = "append"
    /\ wloc[w].i >= wloc[w].capacity
    /\ nodes' \in sortSlice(nodes)
    /\ wpc' = SetPc(wpc, w, "unlock")
    /\ UNCHANGED <<nodeCapacity, nodeAddress, replicas, ringRet, hrmu, wloc,
                   rpc, rloc, cacheVars, clientVars>>

\* RemoveNode: Lock, and the test for a node that is not there.
RemoveNodeLock(w, nodeID) ==
    /\ wpc[w] = "idle"
    /\ canLock(hrmu)
    /\ hrmu' = [hrmu EXCEPT !.writer = w]
    /\ wloc' = [wloc EXCEPT ![w] = [op |-> "RemoveNode", nodeID |-> nodeID,
                                    before |-> Ring]]
    /\ wpc' = SetPc(wpc, w, IF nodeID \in DOMAIN nodeCapacity
                            THEN "filter" ELSE "unlock")
    /\ UNCHANGED <<ringVars, rpc, rloc, cacheVars, clientVars>>

\* RemoveNode: hr.nodes = newNodes, the virtual nodes of the others.
RemoveNodeFilter(w) ==
    /\ wpc[w] = "filter"
    /\ nodes' = SelectSeq(nodes, LAMBDA v : v.NodeID # wloc[w].nodeID)
    /\ wpc' = SetPc(wpc, w, "delete_capacity")
    /\ UNCHANGED <<nodeCapacity, nodeAddress, replicas, ringRet, hrmu, wloc,
                   rpc, rloc, cacheVars, clientVars>>

\* RemoveNode: delete(hr.nodeCapacity, nodeID).
RemoveNodeDeleteCapacity(w) ==
    /\ wpc[w] = "delete_capacity"
    /\ nodeCapacity' = Del(nodeCapacity, wloc[w].nodeID)
    /\ wpc' = SetPc(wpc, w, "delete_address")
    /\ UNCHANGED <<nodes, nodeAddress, replicas, ringRet, hrmu, wloc,
                   rpc, rloc, cacheVars, clientVars>>

\* RemoveNode: delete(hr.nodeAddress, nodeID).
RemoveNodeDeleteAddress(w) ==
    /\ wpc[w] = "delete_address"
    /\ nodeAddress' = Del(nodeAddress, wloc[w].nodeID)
    /\ wpc' = SetPc(wpc, w, "unlock")
    /\ UNCHANGED <<nodes, nodeCapacity, replicas, ringRet, hrmu, wloc,
                   rpc, rloc, cacheVars, clientVars>>

\* The deferred hr.mu.Unlock() of AddNode and RemoveNode.
WriterUnlock(w) ==
    /\ wpc[w] = "unlock"
    /\ hrmu' = [hrmu EXCEPT !.writer = None]
    /\ wpc' = SetPc(wpc, w, "idle")
    /\ wloc' = [wloc EXCEPT ![w] = NoCall]
    /\ UNCHANGED <<ringVars, rpc, rloc, cacheVars, clientVars>>

\* A goroutine calls GetNode or GetNodes; nonEmpty tells whether the ring
\* had virtual nodes before the write in progress, or now if there is none.
\* When the call returns, ok tells whether it found a node.
ReaderCall(t, op, key, count) ==
    /\ rpc[t] = "idle"
    /\ rloc' = [rloc EXCEPT ![t] =
                   [op |-> op, key |-> key, count |-> count, done |-> FALSE,
                    during |-> hrmu.writer # None,
                    nonEmpty |-> IF hrmu.writer # None
                                 THEN Len(wloc[hrmu.writer].before.nodes) > 0
                                 ELSE Len(nodes) > 0]]
    /\ rpc' = SetPc(rpc, t, "rlock")
    /\ UNCHANGED <<ringVars, hrmu, wpc, wloc, cacheVars, clientVars>>

\* hr.mu.RLock() of GetNode and GetNodes.
ReaderRLock(t) ==
    /\ rpc[t] = "rlock"
    /\ canRLock(hrmu)
    /\ hrmu' = [hrmu EXCEPT !.readers = @ \cup {t}]
    /\ rpc' = SetPc(rpc, t, "read")
    /\ UNCHANGED <<ringVars, wpc, wloc, rloc, cacheVars, clientVars>>

\* The body of GetNode or GetNodes and its deferred hr.mu.RUnlock().
ReaderRead(t) ==
    /\ rpc[t] = "read"
    /\ rloc' = [rloc EXCEPT ![t] =
                   [op |-> @.op, key |-> @.key, count |-> @.count, done |-> TRUE,
                    during |-> @.during, nonEmpty |-> @.nonEmpty,
                    ok |-> IF @.op = "GetNode"
                           THEN getNode(Ring, @.key).ok
                           ELSE Len(getNodes(Ring, @.key, @.count)) > 0]]
    /\ hrmu' = [hrmu EXCEPT !.readers = @ \ {t}]
    /\ rpc' = SetPc(rpc, t, "idle")
    /\ UNCHANGED <<ringVars, wpc, wloc, cacheVars, clientVars>>

-----------------------------------------------------------------------------
(* cmd/client and pkg/server                                               *)
\* Bounds of the client model.
MaxRetries == 2      \* config.MaxRetries
MaxSends == 2        \* SendMessage calls per run

Senders == {"s1"}
\* The goroutines that call the SmartClient.
Callers == {"s1", "s2"}
\* The goroutines that call AddServer where one goroutine sends.
Admins == {"s2"}
SendKeys == {<<103>>}
\* The servers AddServer is called with: <<serverID, address, capacity>>.
\* One server is registered at either address.
Servers == {<<NodeU, "h1", 1>>, <<NodeB, "h2", 2>>, <<NodeB, "h1", 2>>}
\* The ids that the callers of RemoveServer pass: those of Servers.
ServerIDs == {NodeU, NodeB}

ZeroClientStats == [TotalRequests |-> 0, SuccessRequests |-> 0, FailedRequests |-> 0,
                    FailoverCount |-> 0, PrimaryHits |-> 0]

\* PostMessage: the CacheLocation of the response for the level AddMessage
\* returned.
cacheLocation(level) ==
    IF level = LevelL1 THEN "CACHE_L1"
    ELSE IF level = LevelL2 THEN "CACHE_L2"
    ELSE IF level = LevelMiss THEN "CACHE_MISS"
    ELSE "CACHE_UNKNOWN"

\* grpc.DialContext with WithBlock succeeds when a server listens at address.
\* A stopping server (Stop has stored healthy = false, GracefulStop has not
\* closed the listener yet) still accepts.
canDial(sv, address) == sv[address] # "down"

\* The serverConnection AddServer stores after c.connectToServer(address):
\* conn is "nil", or the grpc.ClientConn, which is "open" or "closed";
\* client is nil exactly when conn is.
newConnection(sv, address) ==
    IF canDial(sv, address) THEN [conn |-> "open", healthy |-> TRUE]
    ELSE [conn |-> "nil", healthy |-> FALSE]

\* The outcome of ChatServer.PostMessage called at a server in state
\* sv[address]: "ok" (success = true), "rejected" (success = false), or a
\* transport error.
postMessage(sv, address) ==
    IF sv[address] = "up" THEN "ok"
    ELSE IF sv[address] = "stopping" THEN "rejected"
    ELSE "transport"

\* Mutant of checkConn: the health flag is not consulted.
checkConnIgnoreHealth(conn) == "client"

\* sendToServer, the test of conn.healthy: where the call goes on ("mark":
\* it returns the error "marked as down").
checkConn(conn) == IF ~conn.healthy THEN "mark" ELSE "client"

\* conn.client.PostMessage(ctx, req) over the serverConnection conn: a closed
\* grpc.ClientConn fails every call.
rpcOutcome(conn, sv, address) ==
    IF conn.conn = "closed" THEN "transport" ELSE postMessage(sv, address)

\* conn.conn.Close() when conn.conn is not nil.
closeConn(conn) ==
    IF conn.conn = "open" THEN [conn EXCEPT !.conn = "closed"] ELSE conn

\* markConnectionUnhealthy(address): c.connections after it.
markConnectionUnhealthy(conns, address) ==
    IF address \in DOMAIN conns THEN [conns EXCEPT ![address].healthy = FALSE]
    ELSE conns

\* Mutant of countSuccess: a failover is counted as a primary hit as well.
countSuccessBoth(st, i) ==
    IF i = 0
    THEN [st EXCEPT !.SuccessRequests = @ + 1, !.PrimaryHits = @ + 1]
    ELSE [st EXCEPT !.SuccessRequests = @ + 1, !.PrimaryHits = @ + 1,
                    !.FailoverCount = @ + 1]

\* The statistics after a successful attempt number i (0-based).
countSuccess(st, i) ==
    IF i = 0
    THEN [st EXCEPT !.SuccessRequests = @ + 1, !.PrimaryHits = @ + 1]
    ELSE [st EXCEPT !.SuccessRequests = @ + 1, !.FailoverCount = @ + 1]

\* Mutant of countFailure: the failure is not counted.
countFailureNot(st) == st

\* The statistics after a SendMessage that returns an error.
countFailure(st) == [st EXCEPT !.FailedRequests = @ + 1]

\* The locals of a goroutine that is in no call.
NoSend == [chatID |-> <<>>, nodes |-> <<>>, i |-> 0, quiet |-> TRUE,
           conn |-> None, address |-> None, outcome |-> None]
NoRouterRet == [chatID |-> <<>>, ok |-> FALSE, err |-> None, cause |-> None,
                server |-> <<>>, attempts |-> 0, quiet |-> TRUE]
NoProbe == [op |-> None]

\* The node the current iteration of goroutine g's loop sends to.
CurrentNode(g) == sloc[g].nodes[sloc[g].i + 1]

\* The pc values of a goroutine in HealthCheck.
ProbePcs == {"hcRead", "hcCheck", "hcRPC"}

\* The address that goroutine g's call talks to.
TargetAddress(g) ==
    IF spc[g] \in ProbePcs THEN sloc[g].address ELSE CurrentNode(g).Address

\* The serverConnection that the local variable conn of goroutine g points
\* to: sloc[g].conn is None (nil), "table" (the object that c.connections
\* holds under the address), or the name of an object that has left
\* c.connections; such an object is named after a goroutine that holds it.
ConnOf(g) ==
    IF sloc[g].conn = "table" THEN connections[TargetAddress(g)]
    ELSE detached[sloc[g].conn]

\* The goroutines whose conn is the object of c.connections at address.
HoldersOf(address) ==
    {g \in Callers : spc[g] # "idle" /\ sloc[g].conn = "table" /\ TargetAddress(g) = address}

\* The name of the object that the goroutines H go on holding.
NameFor(H) == IF "s1" \in H THEN "s1" ELSE "s2"

\* The locals sl and the objects det outside c.connections when the entry
\* at address leaves c.connections as the object obj: the goroutines that
\* hold it keep it.
Detach(sl, det, address, obj) ==
    LET H == HoldersOf(address) IN
    IF H = {} THEN [sl |-> sl, det |-> det]
    ELSE [sl |-> [g \in Callers |->
                     IF g \in H THEN [sl[g] EXCEPT !.conn = NameFor(H)] ELSE sl[g]],
          det |-> Put(det, NameFor(H), obj)]

\* The objects outside c.connections when goroutine g no longer holds its
\* conn: an object that nothing references is freed.
ReleasedObjects(g) ==
    LET p == sloc[g].conn
        others == {t \in Callers \ {g} : sloc[t].conn = p}
    IN IF p \in {None, "table"} THEN detached
       ELSE IF others = {} THEN Del(detached, p)
       ELSE IF p # g THEN detached
       ELSE Put(Del(detached, p), NameFor(others), detached[p])

\* The locals when goroutine g no longer holds its conn and has the locals l.
ReleasedLocals(g, l) ==
    LET p == sloc[g].conn
        others == {t \in Callers \ {g} : sloc[t].conn = p}
    IN [t \in Callers |->
           IF t = g THEN l
           ELSE IF p = g /\ t \in others THEN [sloc[t] EXCEPT !.conn = NameFor(others)]
           ELSE sloc[t]]

\* The pc values of a goroutine in AddServer, RemoveServer and HealthCheck.
OtherPcs == {"idle", "addDial", "rmRing", "hcRead", "hcCheck", "hcRPC"}

\* The locals after a step of a call that is not goroutine g's: it
\* interleaves with the SendMessage calls in progress.
Disturbed(sl, g) ==
    [t \in Callers |->
        IF t = g \/ spc[t] \in OtherPcs THEN sl[t] ELSE [sl[t] EXCEPT !.quiet = FALSE]]

\* A call of a goroutine outside Callers: it interleaves with the calls in
\* progress, and the result of the last SendMessage is no longer the latest
\* event.
DisturbSends ==
    /\ sloc' = Disturbed(sloc, None)
    /\ routerRet' = NoRouterRet

Disturb ==
    /\ DisturbSends
    /\ probeRet' = NoProbe

\* A step of goroutine g that takes it to pc value p, with the locals sl of
\* the goroutines after it, and returns nothing yet.
Step(g, p, sl) ==
    /\ spc' = [spc EXCEPT ![g] = p]
    /\ sloc' = Disturbed(sl, g)
    /\ routerRet' = NoRouterRet
    /\ probeRet' = NoProbe

\* A step of goroutine g that changes only its own locals, to l.
Goes(g, p, l) == Step(g, p, [sloc EXCEPT ![g] = l])

\* NewSmartClient, with the servers in the states sv.
ClientFreshAt(sv) ==
    /\ connections = EmptyMap
    /\ detached = EmptyMap
    /\ cmu = Unlocked
    /\ clientStats = ZeroClientStats
    /\ srv = sv
    /\ spc = [t \in Callers |-> "idle"]
    /\ sloc = [t \in Callers |-> NoSend]
    /\ routerRet = NoRouterRet
    /\ probeRet = NoProbe

ClientFresh == ClientFreshAt([a \in Addresses |-> "up"])

otherVars == <<ringVars, cacheVars, lockVars>>

\* AddServer: c.mu.Lock(); c.ring.AddNode(serverID, capacity, address); the
\* goroutine goes on to connectToServer with the lock held.
AddServerLock(g, serverID, address, capacity) ==
    /\ spc[g] = "idle"
    /\ canLock(cmu)
    /\ cmu' = [cmu EXCEPT !.writer = g]
    /\ \E r \in addNode(Ring, serverID, capacity, address) : SetRing(r)
    /\ Goes(g, "addDial", [NoSend EXCEPT !.address = address])
    /\ UNCHANGED <<connections, detached, clientStats, srv, ringRet, cacheVars, lockVars>>

\* AddServer: connectToServer returns; the new serverConnection is stored
\* under the address; the deferred Unlock.
AddServerDial(g) ==
    /\ spc[g] = "addDial"
    /\ LET address == sloc[g].address
           d == IF address \in DOMAIN connections
                THEN Detach([sloc EXCEPT ![g] = NoSend], detached, address,
                            connections[address])
                ELSE [sl |-> [sloc EXCEPT ![g] = NoSend], det |-> detached]
       IN /\ connections' = Put(connections, address, newConnection(srv, address))
          /\ detached' = d.det
          /\ Step(g, "idle", d.sl)
    /\ cmu' = [cmu EXCEPT !.writer = None]
    /\ UNCHANGED <<clientStats, srv, otherVars>>

\* Mutant of RemoveServerClose: the connection stays in the table.
RemoveServerKeepConnection(g, serverID) ==
    /\ spc[g] = "idle"
    /\ canLock(cmu)
    /\ cmu' = [cmu EXCEPT !.writer = g]
    /\ Goes(g, "rmRing", [NoSend EXCEPT !.chatID = serverID])
    /\ UNCHANGED <<connections, detached, clientStats, srv, otherVars>>

\* RemoveServer: c.mu.Lock(); addr, ok := c.ring.GetNodeAddress(serverID);
\* the connection stored at addr is closed and deleted; the goroutine goes
\* on to c.ring.RemoveNode with the lock held.  A goroutine that holds the
\* connection sees it closed from here on; the delete shows only to those
\* that take c.mu.
RemoveServerClose(g, serverID) ==
    /\ spc[g] = "idle"
    /\ canLock(cmu)
    /\ cmu' = [cmu EXCEPT !.writer = g]
    /\ LET l == [NoSend EXCEPT !.chatID = serverID] IN
       IF serverID \in DOMAIN nodeAddress /\ nodeAddress[serverID] \in DOMAIN connections
       THEN LET address == nodeAddress[serverID]
                d == Detach([sloc EXCEPT ![g] = l], detached, address,
                            closeConn(connections[address]))
            IN /\ connections' = Del(connections, address)
               /\ detached' = d.det
               /\ Step(g, "rmRing", d.sl)
       ELSE /\ Goes(g, "rmRing", l)
            /\ UNCHANGED <<connections, detached>>
    /\ UNCHANGED <<clientStats, srv, otherVars>>

\* RemoveServer: c.ring.RemoveNode(serverID) and the deferred Unlock.
RemoveServerRing(g) ==
    /\ spc[g] = "rmRing"
    /\ SetRing(removeNode(Ring, sloc[g].chatID))
    /\ Goes(g, "idle", NoSend)
    /\ cmu' = [cmu EXCEPT !.writer = None]
    /\ UNCHANGED <<connections, detached, clientStats, srv, ringRet, cacheVars,
                   lockVars>>

\* The locals and the objects outside c.connections after the entries at
\* the addresses as have been closed and have left c.connections.
RECURSIVE DetachAll(_, _, _)
DetachAll(sl, det, as) ==
    IF as = {} THEN [sl |-> sl, det |-> det]
    ELSE LET a == CHOOSE x \in as : TRUE
             d == Detach(sl, det, a, closeConn(connections[a]))
         IN DetachAll(d.sl, d.det, as \ {a})

\* Close, one critical section of c.mu: every connection is closed and
\* c.connections is a new, empty map; the ring keeps its nodes.  The new
\* map shows only to those that take c.mu, and the runs that close the
\* client have one address, so one connection to close.
Close ==
    /\ canLock(cmu)
    /\ LET d == DetachAll(sloc, detached, DOMAIN connections) IN
       /\ detached' = d.det
       /\ sloc' = Disturbed(d.sl, None)
    /\ connections' = EmptyMap
    /\ routerRet' = NoRouterRet
    /\ probeRet' = NoProbe
    /\ UNCHANGED <<cmu, clientStats, srv, spc, otherVars>>

\* Mutant of markServer: the flag of every connection in the table is set.
markServerAll(conns, r, serverID, h) ==
    IF serverID \in DOMAIN r.nodeAddress /\ r.nodeAddress[serverID] \in DOMAIN conns
    THEN [a \in DOMAIN conns |-> [conns[a] EXCEPT !.healthy = h]]
    ELSE conns

\* The body shared by MarkServerDown (h = FALSE) and MarkServerUp (h = TRUE):
\* c.connections after it.
markServer(conns, r, serverID, h) ==
    IF serverID \in DOMAIN r.nodeAddress /\ r.nodeAddress[serverID] \in DOMAIN conns
    THEN [conns EXCEPT ![r.nodeAddress[serverID]].healthy = h]
    ELSE conns

MarkServerDown(serverID) ==
    /\ canLock(cmu)
    /\ connections' = markServer(connections, Ring, serverID, FALSE)
    /\ Disturb
    /\ UNCHANGED <<detached, cmu, clientStats, srv, spc, otherVars>>

MarkServerUp(serverID) ==
    /\ canLock(cmu)
    /\ connections' = markServer(connections, Ring, serverID, TRUE)
    /\ Disturb
    /\ UNCHANGED <<detached, cmu, clientStats, srv, spc, otherVars>>

\* ChatServer.Stop, first half: s.healthy.Store(false).
ServerStop(address) ==
    /\ srv[address] = "up"
    /\ srv' = [srv EXCEPT ![address] = "stopping"]
    /\ Disturb
    /\ UNCHANGED <<connections, detached, cmu, clientStats, spc, otherVars>>

\* ChatServer.Stop, second half: GracefulStop has closed the listener; the
\* handlers in progress go on to their responses.
ServerStopped(address) ==
    /\ srv[address] = "stopping"
    /\ srv' = [srv EXCEPT ![address] = "down"]
    /\ Disturb
    /\ UNCHANGED <<connections, detached, cmu, clientStats, spc, otherVars>>

\* NewChatServer + Start at an address where none runs.
ServerStart(address) ==
    /\ srv[address] = "down"
    /\ srv' = [srv EXCEPT ![address] = "up"]
    /\ Disturb
    /\ UNCHANGED <<connections, detached, cmu, clientStats, spc, otherVars>>

\* GetTargetServer: c.ring.GetNode(chatID).
getTargetServer(r, chatID) == getNode(r, chatID)

GetTargetServer(chatID) ==
    /\ probeRet' = [op |-> "GetTargetServer", arg |-> chatID,
                    result |-> getTargetServer(Ring, chatID)]
    /\ DisturbSends
    /\ UNCHANGED <<connections, detached, cmu, clientStats, srv, spc, otherVars>>

\* ChatServer.HealthCheck called over an established client: the Healthy
\* field of the response, or a transport error when nothing listens.
serverHealthCheck(sv, address) ==
    IF sv[address] = "up" THEN [healthy |-> TRUE, err |-> "nil"]
    ELSE IF sv[address] = "stopping" THEN [healthy |-> FALSE, err |-> "nil"]
    ELSE [healthy |-> FALSE, err |-> "transport"]

\* A step of goroutine g's HealthCheck(serverID) that returns result.
HealthCheckReturns(g, serverID, result) ==
    /\ spc' = [spc EXCEPT ![g] = "idle"]
    /\ sloc' = Disturbed(ReleasedLocals(g, NoSend), g)
    /\ detached' = ReleasedObjects(g)
    /\ routerRet' = NoRouterRet
    /\ probeRet' = [op |-> "HealthCheck", arg |-> serverID, result |-> result]

\* HealthCheck: addr, ok := c.ring.GetNodeAddress(serverID), and the return
\* when the server is not in the ring.
HealthCheckRing(g, serverID) ==
    /\ spc[g] = "idle"
    /\ IF serverID \notin DOMAIN nodeAddress
       THEN HealthCheckReturns(g, serverID, [healthy |-> FALSE, err |-> "notFound"])
       ELSE /\ Goes(g, "hcRead", [NoSend EXCEPT !.chatID = serverID,
                                               !.address = nodeAddress[serverID]])
            /\ UNCHANGED detached
    /\ UNCHANGED <<connections, cmu, clientStats, srv, otherVars>>

\* HealthCheck: the read of c.connections[addr] under c.mu.RLock(), and the
\* return when there is no entry.
HealthCheckRead(g) ==
    /\ spc[g] = "hcRead"
    /\ canRLock(cmu)
    /\ IF sloc[g].address \notin DOMAIN connections
       THEN HealthCheckReturns(g, sloc[g].chatID, [healthy |-> FALSE, err |-> "nil"])
       ELSE /\ Goes(g, "hcCheck", [sloc[g] EXCEPT !.conn = "table"])
            /\ UNCHANGED detached
    /\ UNCHANGED <<connections, cmu, clientStats, srv, otherVars>>

\* HealthCheck: the tests of conn.client and conn.healthy, made without the
\* lock.
HealthCheckCheck(g) ==
    /\ spc[g] = "hcCheck"
    /\ IF ConnOf(g).conn = "nil" \/ ~ConnOf(g).healthy
       THEN HealthCheckReturns(g, sloc[g].chatID, [healthy |-> FALSE, err |-> "nil"])
       ELSE /\ Goes(g, "hcRPC", sloc[g])
            /\ UNCHANGED detached
    /\ UNCHANGED <<connections, cmu, clientStats, srv, otherVars>>

\* HealthCheck: conn.client.HealthCheck(ctx, ...) and the return.
HealthCheckRPC(g) ==
    /\ spc[g] = "hcRPC"
    /\ HealthCheckReturns(g, sloc[g].chatID,
           IF ConnOf(g).conn = "closed"
           THEN [healthy |-> FALSE, err |-> "transport"]
           ELSE serverHealthCheck(srv, sloc[g].address))
    /\ UNCHANGED <<connections, cmu, clientStats, srv, otherVars>>

\* SendMessage: c.mu.Lock(); c.stats.TotalRequests++; c.mu.Unlock().
SendCount(g, chatID) ==
    /\ spc[g] = "idle"
    /\ canLock(cmu)
    /\ clientStats.TotalRequests < MaxSends
    /\ clientStats' = [clientStats EXCEPT !.TotalRequests = @ + 1]
    /\ Goes(g, "getNodes", [NoSend EXCEPT !.chatID = chatID])
    /\ UNCHANGED <<connections, detached, cmu, srv, otherVars>>

\* SendMessage: nodes := c.ring.GetNodes(chatID, c.config.MaxRetries).
SendGetNodes(g) ==
    /\ spc[g] = "getNodes"
    /\ LET ns == getNodes(Ring, sloc[g].chatID, MaxRetries) IN
       Goes(g, IF Len(ns) = 0 THEN "noServers" ELSE "read", [sloc[g] EXCEPT !.nodes = ns])
    /\ UNCHANGED <<connections, detached, cmu, clientStats, srv, otherVars>>

\* A step of goroutine g's SendMessage that returns r.
SendReturns(g, r) ==
    /\ spc' = [spc EXCEPT ![g] = "idle"]
    /\ sloc' = Disturbed(ReleasedLocals(g, NoSend), g)
    /\ detached' = ReleasedObjects(g)
    /\ routerRet' = r
    /\ probeRet' = NoProbe

\* SendMessage with an empty list: FailedRequests++ under c.mu and the
\* return of "no servers available".
SendNoServers(g) ==
    /\ spc[g] = "noServers"
    /\ canLock(cmu)
    /\ clientStats' = countFailure(clientStats)
    /\ SendReturns(g, [NoRouterRet EXCEPT !.chatID = sloc[g].chatID,
                                          !.err = "NoBackends",
                                          !.quiet = sloc[g].quiet])
    /\ UNCHANGED <<connections, cmu, srv, otherVars>>

\* The locals of goroutine g when its sendToServer has returned outcome.
Tried(g, outcome) == [sloc[g] EXCEPT !.outcome = outcome]

\* sendToServer: c.mu.RLock(); conn, exists := c.connections[address];
\* c.mu.RUnlock(); the return when there is no entry.
SendToServerRead(g) ==
    /\ spc[g] = "read"
    /\ canRLock(cmu)
    /\ IF CurrentNode(g).Address \in DOMAIN connections
       THEN Goes(g, "check", [sloc[g] EXCEPT !.conn = "table"])
       ELSE Goes(g, "mark", Tried(g, "noConn"))
    /\ UNCHANGED <<connections, detached, cmu, clientStats, srv, otherVars>>

\* sendToServer: the test of conn.healthy, made without the lock.
SendToServerCheck(g) ==
    /\ spc[g] = "check"
    /\ LET next == checkConn(ConnOf(g)) IN
       Goes(g, next, IF next = "mark" THEN Tried(g, "markedDown") ELSE sloc[g])
    /\ UNCHANGED <<connections, detached, cmu, clientStats, srv, otherVars>>

\* sendToServer: the test of conn.client, made without the lock.
SendToServerClient(g) ==
    /\ spc[g] = "client"
    /\ Goes(g, IF ConnOf(g).conn = "nil" THEN "lock" ELSE "rpc", sloc[g])
    /\ UNCHANGED <<connections, detached, cmu, clientStats, srv, otherVars>>

\* sendToServer, the reconnect: c.mu.Lock(); the goroutine goes on to
\* connectToServer with the lock held.
SendToServerLock(g) ==
    /\ spc[g] = "lock"
    /\ canLock(cmu)
    /\ cmu' = [cmu EXCEPT !.writer = g]
    /\ Goes(g, "dial", sloc[g])
    /\ UNCHANGED <<connections, detached, clientStats, srv, otherVars>>

\* sendToServer, the reconnect: connectToServer returns; on success the
\* fields of conn are set; c.mu.Unlock().
SendToServerDial(g) ==
    /\ spc[g] = "dial"
    /\ IF canDial(srv, CurrentNode(g).Address)
       THEN /\ IF sloc[g].conn = "table"
               THEN /\ connections' = [connections EXCEPT ![CurrentNode(g).Address] =
                                           [conn |-> "open", healthy |-> TRUE]]
                    /\ UNCHANGED detached
               ELSE /\ detached' = [detached EXCEPT ![sloc[g].conn] =
                                        [conn |-> "open", healthy |-> TRUE]]
                    /\ UNCHANGED connections
            /\ Goes(g, "rpc", sloc[g])
       ELSE /\ Goes(g, "mark", Tried(g, "dialFailed"))
            /\ UNCHANGED <<connections, detached>>
    /\ cmu' = [cmu EXCEPT !.writer = None]
    /\ UNCHANGED <<clientStats, srv, otherVars>>

\* sendToServer: conn.client.PostMessage(ctx, req) and the return.
SendToServerRPC(g) ==
    /\ spc[g] = "rpc"
    /\ LET outcome == rpcOutcome(ConnOf(g), srv, CurrentNode(g).Address) IN
       Goes(g, IF outcome = "ok" THEN "success" ELSE "mark", Tried(g, outcome))
    /\ UNCHANGED <<connections, detached, cmu, clientStats, srv, otherVars>>

\* SendMessage after a response with Success: the counters under c.mu and
\* the return of the response.
SendSuccess(g) ==
    /\ spc[g] = "success"
    /\ canLock(cmu)
    /\ clientStats' = countSuccess(clientStats, sloc[g].i)
    /\ SendReturns(g, [chatID |-> sloc[g].chatID, ok |-> TRUE, err |-> None,
                       cause |-> None, server |-> CurrentNode(g).NodeID,
                       attempts |-> sloc[g].i + 1, quiet |-> sloc[g].quiet])
    /\ UNCHANGED <<connections, cmu, srv, otherVars>>

\* SendMessage after a failed attempt: lastErr = err,
\* markConnectionUnhealthy(node.Address) under c.mu, and the next node,
\* whose attempt overwrites lastErr.
SendMark(g) ==
    /\ spc[g] = "mark"
    /\ canLock(cmu)
    /\ LET next == IF sloc[g].i + 1 < Len(sloc[g].nodes) THEN "read" ELSE "failed"
           l == [sloc[g] EXCEPT !.i = @ + 1, !.conn = None,
                                !.outcome = IF next = "read" THEN None ELSE @]
       IN Step(g, next, ReleasedLocals(g, l))
    /\ detached' = ReleasedObjects(g)
    /\ connections' = markConnectionUnhealthy(connections, CurrentNode(g).Address)
    /\ UNCHANGED <<cmu, clientStats, srv, otherVars>>

\* SendMessage after the loop: FailedRequests++ under c.mu and the return of
\* "all servers exhausted" wrapping lastErr, which is nil after a response
\* with Success = false.
SendFailed(g) ==
    /\ spc[g] = "failed"
    /\ canLock(cmu)
    /\ clientStats' = countFailure(clientStats)
    /\ SendReturns(g, [chatID |-> sloc[g].chatID, ok |-> FALSE, err |-> "AllExhausted",
                       cause |-> IF sloc[g].outcome = "rejected" THEN "nil"
                                 ELSE sloc[g].outcome,
                       server |-> <<>>, attempts |-> sloc[g].i,
                       quiet |-> sloc[g].quiet])
    /\ UNCHANGED <<connections, cmu, srv, otherVars>>

\* The ChatServer whose cache the cache variables are listens here.
BackendAddress == "h2"

\* The goroutine of the grpc server that handles the request of caller g.
HandlerOf(g) == IF g = "s1" THEN "t1" ELSE "t2"

\* The pc values of a caller whose request a handler is working on.
HandlerPcs == {"srvAdd", "srvAppend", "srvRespond", "srvSpin"}

\* sendToServer to a server other than the one at BackendAddress, or one
\* that does not reach a handler.
SendToServerElsewhere(g) ==
    /\ spc[g] = "rpc"
    /\ \/ CurrentNode(g).Address # BackendAddress
       \/ rpcOutcome(ConnOf(g), srv, CurrentNode(g).Address) = "transport"
    /\ SendToServerRPC(g)

\* Mutant of chatServerHealthy: the healthy flag is not consulted.
chatServerHealthyNoFlag(sv, address) == TRUE

\* ChatServer.PostMessage: s.healthy.Load().
chatServerHealthy(sv, address) == sv[address] = "up"

\* conn.client.PostMessage reaches the server at BackendAddress, whose
\* PostMessage tests s.healthy.Load() and returns the response "server is
\* shutting down" or goes on to s.cache.AddMessage.
PostMessageLoad(g) ==
    /\ spc[g] = "rpc"
    /\ CurrentNode(g).Address = BackendAddress
    /\ rpcOutcome(ConnOf(g), srv, BackendAddress) # "transport"
    /\ IF chatServerHealthy(srv, BackendAddress)
       THEN /\ Goes(g, "srvAdd", sloc[g])
            /\ UNCHANGED ret
       ELSE /\ Goes(g, "mark", Tried(g, "rejected"))
            /\ ret' = [op |-> "PostMessage", chatID |-> sloc[g].chatID,
                       Success |-> FALSE, ErrorMessage |-> "server is shutting down",
                       CacheLocation |-> "CACHE_UNKNOWN", MessageCount |-> 0]
    /\ UNCHANGED <<l1Capacity, l2Capacity, l1Cache, l1List, l2Cache, l2List, stats,
                   sessions, mu, pc, held>>
    /\ UNCHANGED <<connections, detached, cmu, clientStats, srv, ringVars, lockVars>>

\* PostMessage: s.cache.AddMessage, its c.GetOrCreate(chatID).
PostMessageAdd(g) ==
    /\ spc[g] = "srvAdd"
    /\ mu = "unlocked"
    /\ LET r == getOrCreate(Cache, sessions, sloc[g].chatID) IN
       /\ SetCache(r.c)
       /\ IF r.c.spin
          THEN /\ mu' = "locked"
               /\ sessions' = Collect(sessions, r.c, held)
               /\ Goes(g, "srvSpin", sloc[g])
               /\ UNCHANGED held
          ELSE /\ held' = [held EXCEPT ![HandlerOf(g)] =
                              [chatID |-> sloc[g].chatID, msg |-> stats.TotalRequests + 1,
                               session |-> r.session, level |-> r.level]]
               /\ sessions' = Collect(r.h, r.c, held')
               /\ Goes(g, "srvAppend", sloc[g])
               /\ UNCHANGED mu
    /\ UNCHANGED <<pc, ret>>
    /\ UNCHANGED <<connections, detached, cmu, clientStats, srv, ringVars, lockVars>>

\* PostMessage: s.cache.AddMessage, the append under c.mu.
PostMessageAppend(g) ==
    /\ spc[g] = "srvAppend"
    /\ mu = "unlocked"
    /\ sessions' = appendMessage(sessions, held[HandlerOf(g)].session,
                                 held[HandlerOf(g)].msg)
    /\ Goes(g, "srvRespond", sloc[g])
    /\ UNCHANGED <<l1Capacity, l2Capacity, l1Cache, l1List, l2Cache, l2List, stats,
                   mu, pc, held, ret>>
    /\ UNCHANGED <<connections, detached, cmu, clientStats, srv, ringVars, lockVars>>

\* PostMessage: the response with session.MessageCount, read without a
\* lock, and its arrival at the caller.
PostMessageRespond(g) ==
    /\ spc[g] = "srvRespond"
    /\ ret' = [op |-> "PostMessage", chatID |-> sloc[g].chatID,
               Success |-> TRUE, ErrorMessage |-> "",
               CacheLocation |-> cacheLocation(held[HandlerOf(g)].level),
               MessageCount |-> sessions[held[HandlerOf(g)].session].MessageCount]
    /\ held' = [held EXCEPT ![HandlerOf(g)] = NoHeld]
    /\ sessions' = Collect(sessions, Cache, held')
    /\ Goes(g, "success", Tried(g, "ok"))
    /\ UNCHANGED <<l1Capacity, l2Capacity, l1Cache, l1List, l2Cache, l2List, stats,
                   mu, pc>>
    /\ UNCHANGED <<connections, detached, cmu, clientStats, srv, ringVars, lockVars>>

\* The servers of the runs in which no server is registered at two
\* addresses.
RouterServers == {<<NodeU, "h1", 1>>, <<NodeB, "h2", 2>>}
\* The server and its address in the runs with two calling goroutines.
DialServers == {<<NodeB, "h2", 2>>}
DialAddresses == {"h2"}

\* The SmartClient with one goroutine in SendMessage and one in AddServer and
\* RemoveServer, while servers are marked, stopped and started; the client
\* is not closed.
RouterNext ==
    \/ \E g \in Admins, s \in RouterServers : AddServerLock(g, s[1], s[2], s[3])
    \/ \E g \in Admins : AddServerDial(g)
    \/ \E g \in Admins, serverID \in ServerIDs : RemoveServerClose(g, serverID)
    \/ \E g \in Admins : RemoveServerRing(g)
    \/ \E serverID \in NodeIDs : MarkServerDown(serverID)
    \/ \E serverID \in NodeIDs : MarkServerUp(serverID)
    \/ \E address \in Addresses : ServerStop(address)
    \/ \E address \in Addresses : ServerStopped(address)
    \/ \E address \in Addresses : ServerStart(address)
    \/ \E g \in Senders, chatID \in SendKeys : SendCount(g, chatID)
    \/ \E g \in Senders : SendGetNodes(g)
    \/ \E g \in Senders : SendNoServers(g)
    \/ \E g \in Senders : SendToServerRead(g)
    \/ \E g \in Senders : SendToServerCheck(g)
    \/ \E g \in Senders : SendToServerClient(g)
    \/ \E g \in Senders : SendToServerLock(g)
    \/ \E g \in Senders : SendToServerDial(g)
    \/ \E g \in Senders : SendToServerRPC(g)
    \/ \E g \in Senders : SendSuccess(g)
    \/ \E g \in Senders : SendMark(g)
    \/ \E g \in Senders : SendFailed(g)

-----------------------------------------------------------------------------
(* The specifications.                                                     *)

CacheIdle == CacheFresh(1, 1)
RingIdle == RingFresh(1)
ClientIdle == ClientFresh

CacheInit ==
    /\ \E cap1 \in 0..MaxCap, cap2 \in 0..MaxCap : CacheFresh(cap1, cap2)
    /\ RingIdle
    /\ ClientIdle

CacheSpec == CacheInit /\ [][CacheNext]_vars

\* The runs of the cache in which Clear is never called.
CacheNoClearNext ==
    \/ \E t \in Threads, chatID \in ChatIDs : GetOrCreate(t, chatID)
    \/ \E t \in Threads, chatID \in ChatIDs, msg \in Msgs : AddMessageGet(t, chatID, msg)
    \/ \E t \in Threads : AddMessageAppend(t)
    \/ \E t \in Threads, chatID \in ChatIDs : GetSession(t, chatID)
    \/ \E t \in Threads : GetCacheInfo(t)

CacheNoClearSpec == CacheInit /\ [][CacheNoClearNext]_vars

\* The capacity of a heavy node: with it, the node and one virtual node of
\* another fill a slice that is still sorted by insertion, and a third node
\* makes a longer one.
HeavyWeight == maxInsertion - 1

RingInit ==
    /\ RingFresh(Replicas)
    /\ CacheIdle
    /\ ClientIdle

RingNext ==
    \/ \E nodeID \in NodeIDs, capacity \in 0..MaxWeight, address \in Addresses :
           AddNode(nodeID, capacity, address)
    \/ AddNode(NodeU, HeavyWeight, "h1")
    \/ \E nodeID \in NodeIDs : RemoveNode(nodeID)
    \/ \E key \in Keys : GetNode(key)
    \/ \E key \in Keys, count \in 0..MaxCount : GetNodes(key, count)

RingSpec == RingInit /\ [][RingNext]_vars

LockKeys == {<<103>>, <<122>>}
LockNodes == {NodeU, NodeB}

RingLockInit == RingInit

RingLockNext ==
    \/ \E w \in Writers, nodeID \in LockNodes, capacity \in 0..MaxWeight :
           AddNodeLock(w, nodeID, capacity, "h1")
    \/ \E w \in Writers : AddNodeEntries(w)
    \/ \E w \in Writers : AddNodeAppend(w)
    \/ \E w \in Writers : AddNodeSort(w)
    \/ \E w \in Writers, nodeID \in LockNodes : RemoveNodeLock(w, nodeID)
    \/ \E w \in Writers : RemoveNodeFilter(w)
    \/ \E w \in Writers : RemoveNodeDeleteCapacity(w)
    \/ \E w \in Writers : RemoveNodeDeleteAddress(w)
    \/ \E w \in Writers : WriterUnlock(w)
    \/ \E t \in Readers, key \in LockKeys : ReaderCall(t, "GetNode", key, 0)
    \/ \E t \in Readers, key \in LockKeys : ReaderCall(t, "GetNodes", key, MaxCount)
    \/ \E t \in Readers : ReaderRLock(t)
    \/ \E t \in Readers : ReaderRead(t)

RingLockSpec == RingLockInit /\ [][RingLockNext]_vars

\* NewSmartClient: a fresh ring with config.VirtualNodes replicas, no
\* connections, zero statistics.
RouterInit ==
    /\ RingFresh(Replicas)
    /\ ClientFresh
    /\ CacheIdle

RouterSpec == RouterInit /\ [][RouterNext]_vars

\* The SmartClient while servers are registered, marked, stopped and
\* started, and queried with GetTargetServer and HealthCheck; no message is
\* sent and the client is not closed.
ProbeNext ==
    \/ \E g \in Admins, s \in Servers : AddServerLock(g, s[1], s[2], s[3])
    \/ \E g \in Admins : AddServerDial(g)
    \/ \E g \in Admins, serverID \in ServerIDs : RemoveServerClose(g, serverID)
    \/ \E g \in Admins : RemoveServerRing(g)
    \/ \E serverID \in NodeIDs : MarkServerDown(serverID)
    \/ \E serverID \in NodeIDs : MarkServerUp(serverID)
    \/ \E address \in Addresses : ServerStop(address)
    \/ \E address \in Addresses : ServerStopped(address)
    \/ \E address \in Addresses : ServerStart(address)
    \/ \E chatID \in SendKeys : GetTargetServer(chatID)
    \/ \E g \in Senders, serverID \in NodeIDs : HealthCheckRing(g, serverID)
    \/ \E g \in Senders : HealthCheckRead(g)
    \/ \E g \in Senders : HealthCheckCheck(g)
    \/ \E g \in Senders : HealthCheckRPC(g)

ProbeSpec == RouterInit /\ [][ProbeNext]_vars

\* The SmartClient with two goroutines that call AddServer, RemoveServer,
\* SendMessage and HealthCheck, while servers are marked, stopped and started
\* and the client is closed; the server is running or not yet started at the
\* beginning.
DialInit ==
    /\ RingFresh(Replicas)
    /\ \E s \in {"up", "down"} :
           ClientFreshAt([a \in Addresses |-> IF a \in DialAddresses THEN s ELSE "up"])
    /\ CacheIdle

DialNext ==
    \/ \E g \in Callers, s \in DialServers : AddServerLock(g, s[1], s[2], s[3])
    \/ \E g \in Callers : AddServerDial(g)
    \/ \E g \in Callers, serverID \in ServerIDs : RemoveServerClose(g, serverID)
    \/ \E g \in Callers : RemoveServerRing(g)
    \/ \E serverID \in NodeIDs : MarkServerDown(serverID)
    \/ \E serverID \in NodeIDs : MarkServerUp(serverID)
    \/ Close
    \/ \E address \in DialAddresses : ServerStop(address)
    \/ \E address \in DialAddresses : ServerStopped(address)
    \/ \E address \in DialAddresses : ServerStart(address)
    \/ \E g \in Callers, serverID \in NodeIDs : HealthCheckRing(g, serverID)
    \/ \E g \in Callers : HealthCheckRead(g)
    \/ \E g \in Callers : HealthCheckCheck(g)
    \/ \E g \in Callers : HealthCheckRPC(g)
    \/ \E g \in Callers, chatID \in SendKeys : SendCount(g, chatID)
    \/ \E g \in Callers : SendGetNodes(g)
    \/ \E g \in Callers : SendNoServers(g)
    \/ \E g \in Callers : SendToServerRead(g)
    \/ \E g \in Callers : SendToServerCheck(g)
    \/ \E g \in Callers : SendToServerClient(g)
    \/ \E g \in Callers : SendToServerLock(g)
    \/ \E g \in Callers : SendToServerDial(g)
    \/ \E g \in Callers : SendToServerRPC(g)
    \/ \E g \in Callers : SendSuccess(g)
    \/ \E g \in Callers : SendMark(g)
    \/ \E g \in Callers : SendFailed(g)

DialSpec == DialInit /\ [][DialNext]_vars

\* The SmartClient with two goroutines in SendMessage at once, while servers
\* are registered, marked up and stopped.
ConcurrentNext ==
    \/ \E g \in Callers, s \in Servers : AddServerLock(g, s[1], s[2], s[3])
    \/ \E g \in Callers : AddServerDial(g)
    \/ \E address \in Addresses : ServerStop(address)
    \/ \E address \in Addresses : ServerStopped(address)
    \/ \E serverID \in NodeIDs : MarkServerUp(serverID)
    \/ \E g \in Callers, chatID \in SendKeys : SendCount(g, chatID)
    \/ \E g \in Callers : SendGetNodes(g)
    \/ \E g \in Callers : SendNoServers(g)
    \/ \E g \in Callers : SendToServerRead(g)
    \/ \E g \in Callers : SendToServerCheck(g)
    \/ \E g \in Callers : SendToServerClient(g)
    \/ \E g \in Callers : SendToServerLock(g)
    \/ \E g \in Callers : SendToServerDial(g)
    \/ \E g \in Callers : SendToServerRPC(g)
    \/ \E g \in Callers : SendSuccess(g)
    \/ \E g \in Callers : SendMark(g)
    \/ \E g \in Callers : SendFailed(g)

ConcurrentSpec == RouterInit /\ [][ConcurrentNext]_vars

\* A SmartClient in front of servers of which the one at BackendAddress is
\* modelled with its cache (NewChatServer gives it positive capacities):
\* servers are registered, marked up and stopped, and every request that reaches the
\* server at BackendAddress is handled by its PostMessage.
BackendInit ==
    /\ RingFresh(Replicas)
    /\ ClientFresh
    /\ \E cap1 \in 1..MaxCap, cap2 \in 1..MaxCap : CacheFresh(cap1, cap2)

BackendNext ==
    \/ \E g \in Admins, s \in Servers : AddServerLock(g, s[1], s[2], s[3])
    \/ \E g \in Admins : AddServerDial(g)
    \/ \E address \in Addresses : ServerStop(address)
    \/ \E address \in Addresses : ServerStopped(address)
    \/ \E serverID \in NodeIDs : MarkServerUp(serverID)
    \/ \E g \in Senders, chatID \in SendKeys : SendCount(g, chatID)
    \/ \E g \in Senders : SendGetNodes(g)
    \/ \E g \in Senders : SendNoServers(g)
    \/ \E g \in Senders : SendToServerRead(g)
    \/ \E g \in Senders : SendToServerCheck(g)
    \/ \E g \in Senders : SendToServerClient(g)
    \/ \E g \in Senders : SendToServerLock(g)
    \/ \E g \in Senders : SendToServerDial(g)
    \/ \E g \in Senders : SendToServerElsewhere(g)
    \/ \E g \in Senders : PostMessageLoad(g)
    \/ \E g \in Senders : PostMessageAdd(g)
    \/ \E g \in Senders : PostMessageAppend(g)
    \/ \E g \in Senders : PostMessageRespond(g)
    \/ \E g \in Senders : SendSuccess(g)
    \/ \E g \in Senders : SendMark(g)
    \/ \E g \in Senders : SendFailed(g)

BackendSpec == BackendInit /\ [][BackendNext]_vars

-----------------------------------------------------------------------------
(* Claims about the cache, checked under CacheSpec.                        *)

\* The ids resident in each tier.
InL1 == DOMAIN l1Cache
InL2 == DOMAIN l2Cache
Spinning == \E t \in Threads : pc[t] = "spin"

\* C1: no chat id is a key of both tiers at once, and in each tier the map
\* and the LRU list hold the same ids, each once.
C1_TierDisjoint ==
    /\ InL1 \cap InL2 = {}
    /\ SeqToSet(l1List) = InL1 /\ Len(l1List) = Cardinality(InL1)
    /\ SeqToSet(l2List) = InL2 /\ Len(l2List) = Cardinality(InL2)

\* C1 witness: an L2 hit has promoted a session and both tiers are in use.
C1_Witness == stats.L2Hits > 0 /\ l1List # <<>> /\ l2List # <<>>

\* C2: after every operation each tier holds at most its capacity.
C2_Capacity ==
    /\ Cardinality(InL1) <= l1Capacity /\ Len(l1List) <= l1Capacity
    /\ Cardinality(InL2) <= l2Capacity /\ Len(l2List) <= l2Capacity

\* C2 witness: both tiers are full after a demotion that caused an eviction.
C2_Witness ==
    /\ stats.Evictions > 0 /\ stats.Demotions > 0
    /\ Cardinality(InL1) = l1Capacity /\ Cardinality(InL2) = l2Capacity

\* C7: AddMessage is atomic: between its lookup and its append no other call
\* evicts or drops the session, so the session about to be appended to is the
\* one resident under the chat id (stated for caches with both tiers).
C7_AppendToResident ==
    \A t \in Threads :
        (pc[t] = "append" /\ l1Capacity >= 1 /\ l2Capacity >= 1) =>
            /\ getSession(Cache, held[t].chatID).ok
            /\ getSession(Cache, held[t].chatID).session = held[t].session

\* C9: with l2Capacity = 0 (and a hot tier) every GetOrCreate terminates and
\* L2 stays empty.
C9_Cap2ZeroTerminates ==
    (l2Capacity = 0 /\ l1Capacity >= 1) => (~Spinning /\ l2List = <<>>)

\* C10: no GetOrCreate is ever executed against a cache with l1Capacity < 1
\* (such a cache is rejected at construction).
C10_NoRequestWithoutHotTier == stats.TotalRequests > 0 => l1Capacity >= 1

-----------------------------------------------------------------------------
(* Claims about the ring, checked under RingSpec.                          *)

Min(S) == CHOOSE i \in S : \A j \in S : i <= j

\* The positions (1-based, stored order) whose hash is >= H(key).
AtOrAfter(key) == {i \in 1..Len(nodes) : U32Geq(nodes[i].Hash, hashKey(key))}

\* The position Lookup is specified to land on: the first virtual node in
\* stored order with hash >= H(key), or the first of all when there is none.
Landing(key) == IF AtOrAfter(key) = {} THEN 1 ELSE Min(AtOrAfter(key))

ExpectedLookup(key) ==
    IF Len(nodes) = 0 THEN NoNode
    ELSE [nodeID |-> nodes[Landing(key)].NodeID,
          address |-> nodeAddress[nodes[Landing(key)].NodeID],
          ok |-> TRUE]

\* C4: GetNode returns the owner and registered address of the first virtual
\* node in stored order with hash >= H(key), wrapping to index 0; present is
\* false exactly on the empty ring; the result depends on the ring alone.
C4_Lookup ==
    /\ \A key \in Keys : getNode(Ring, key) = ExpectedLookup(key)
    /\ ringRet.op = "GetNode" => ringRet.result = ExpectedLookup(ringRet.key)
    /\ \A i \in 1..Len(nodes) : nodes[i].NodeID \in DOMAIN nodeAddress

\* C4 witness: a GetNode on a ring of three nodes whose key hashes beyond
\* every virtual node, answered from index 0.
C4_Witness ==
    /\ ringRet.op = "GetNode"
    /\ Cardinality(DOMAIN nodeCapacity) = 3
    /\ AtOrAfter(ringRet.key) = {}
    /\ ringRet.result.ok /\ ringRet.result.nodeID = nodes[1].NodeID

\* The owners met walking clockwise from the landing position, as offsets:
\* the least offset at which each owner is met.
FirstMet(key, id) ==
    LET start == Landing(key) - 1 IN
    Min({j \in 0..(Len(nodes) - 1) :
            nodes[((start + j) % Len(nodes)) + 1].NodeID = id})

ExpectedSuccessors(key, m, res) ==
    LET n == Cardinality(DOMAIN nodeCapacity)
        ids == {res[i].NodeID : i \in 1..Len(res)}
    IN /\ Len(res) = IF m < n THEN m ELSE n
       /\ \A i, j \in 1..Len(res) : i # j => res[i].NodeID # res[j].NodeID
       /\ ids \subseteq DOMAIN nodeCapacity
       /\ \A i \in 1..Len(res) : res[i].Address = nodeAddress[res[i].NodeID]
       /\ \A i, j \in 1..Len(res) :
              i < j => FirstMet(key, res[i].NodeID) < FirstMet(key, res[j].NodeID)
       /\ \A id \in (DOMAIN nodeCapacity) \ ids : \A i \in 1..Len(res) :
              FirstMet(key, res[i].NodeID) < FirstMet(key, id)
       /\ Len(res) > 0 => res[1].NodeID = getNode(Ring, key).nodeID

\* C5: GetNodes(key, m) returns min(m, NodeCount) pairwise distinct owners in
\* the order first met walking clockwise from the lookup index, the first
\* being Lookup(key); on the empty ring it returns nothing.
C5_Successors ==
    /\ \A key \in Keys, m \in 0..MaxCount :
           ExpectedSuccessors(key, m, getNodes(Ring, key, m))
    /\ ringRet.op = "GetNodes" =>
           ExpectedSuccessors(ringRet.key, ringRet.count, ringRet.result)

\* C5 witness: GetNodes asked for two of three nodes whose first virtual
\* nodes met belong to the same owner, and for more nodes than there are.
C5_Witness ==
    /\ ringRet.op = "GetNodes"
    /\ Cardinality(DOMAIN nodeCapacity) = 3
    /\ ringRet.count = 2 /\ Len(ringRet.result) = 2
    /\ Len(nodes) > 3
    /\ FirstMet(ringRet.key, ringRet.result[2].NodeID) > 1

\* C6 (as stated): across RemoveNode(X) no key owned by a surviving node
\* changes owner; across AddNode(X) of a fresh node every key that changes
\* owner moves to X.  The second half fails once the slice is longer than
\* maxInsertion: the sort may then swap two colliding virtual nodes of nodes
\* that were in the ring before, and a key landing on them moves between them.
C6_MinimalRemap ==
    /\ ringRet.op = "RemoveNode" =>
           \A k \in Keys :
               Owners(ringRet.before)[k] # ringRet.nodeID =>
                   Owners(Ring)[k] = Owners(ringRet.before)[k]
    /\ ringRet.op = "AddNode" =>
           \A k \in Keys :
               Owners(Ring)[k] # Owners(ringRet.before)[k] =>
                   /\ Owners(Ring)[k] = ringRet.nodeID
                   /\ ringRet.nodeID \notin DOMAIN ringRet.before.nodeCapacity


-----------------------------------------------------------------------------
(* Claims about the client.                                                *)

\* The pc values of a goroutine in the loop of SendMessage.
LoopPcs ==
    {"read", "check", "client", "lock", "dial", "rpc", "success", "mark"} \cup HandlerPcs

\* The step is goroutine g counting its SendMessage in TotalRequests.
Started(g) == spc[g] = "idle" /\ spc'[g] = "getNodes"

\* The step is goroutine g's SendMessage getting its list from the ring.
GotNodes(g) == spc[g] = "getNodes" /\ spc'[g] # "getNodes"

\* The step is the return of goroutine g's sendToServer.
Attempted(g) ==
    /\ spc[g] \in {"read", "check", "dial", "rpc", "srvRespond"}
    /\ spc'[g] \in {"success", "mark"}

\* The step is the return of goroutine g's SendMessage.
Returned(g) == spc[g] \in {"noServers", "success", "failed"} /\ spc'[g] = "idle"

\* The connection at address a is registered, healthy, and its server answers.
Usable(a) == a \in DOMAIN connections /\ connections[a].healthy /\ srv[a] = "up"

\* The first successor of chatID with a usable connection, <<>> if none.
ExpectedTarget(chatID) ==
    LET ns == getNodes(Ring, chatID, MaxRetries)
        us == {j \in 1..Len(ns) : Usable(ns[j].Address)}
    IN IF us = {} THEN <<>> ELSE ns[Min(us)].NodeID

\* While a SendMessage is in its loop, it is at a node of its list; the
\* nodes before it are those it has tried, and after the loop it has tried
\* them all.
C3_InOrder ==
    \A g \in Senders :
        /\ spc[g] \in LoopPcs => sloc[g].i < Len(sloc[g].nodes)
        /\ spc[g] = "failed" => sloc[g].i = Len(sloc[g].nodes)

\* The counters across a successful return of goroutine g.
C3_Counted(g) ==
    clientStats' =
        IF sloc[g].i = 0
        THEN [clientStats EXCEPT !.SuccessRequests = @ + 1, !.PrimaryHits = @ + 1]
        ELSE [clientStats EXCEPT !.SuccessRequests = @ + 1, !.FailoverCount = @ + 1]

\* C3: SendMessage tries the nodes of GetNodes(chatID, MaxRetries) in ring
\* order, each at most once, and returns the response of the first that
\* answers success = true; it then adds one to SuccessRequests, and one to
\* PrimaryHits if that node is the first successor, to FailoverCount
\* otherwise.  A SendMessage no other call interleaves with returns from the
\* first successor whose connection is healthy and whose server answers, so
\* with the primary marked down and the second successor healthy it returns
\* from the second, and sending again in the same state selects it again.
C3_Failover ==
    /\ [] C3_InOrder
    /\ [][\A g \in Senders :
            /\ GotNodes(g) =>
                   /\ ExpectedSuccessors(sloc[g].chatID, MaxRetries, sloc'[g].nodes)
                   /\ sloc'[g].i = 0
            /\ (spc[g] \in LoopPcs /\ spc'[g] # "idle") =>
                   /\ sloc'[g].nodes = sloc[g].nodes
                   /\ sloc'[g].i = IF spc[g] = "mark" /\ spc'[g] # "mark"
                                   THEN sloc[g].i + 1 ELSE sloc[g].i
            /\ (Attempted(g) /\ spc[g] = "rpc") =>
                   (spc'[g] = "success" <=> srv[CurrentNode(g).Address] = "up"
                                            /\ ConnOf(g).conn = "open")
            /\ spc'[g] = "success" => spc[g] \in {"rpc", "success"}
            /\ (Returned(g) /\ routerRet'.ok) =>
                   /\ spc[g] = "success"
                   /\ routerRet'.server = CurrentNode(g).NodeID
                   /\ routerRet'.attempts = sloc[g].i + 1
                   /\ C3_Counted(g)
                   /\ routerRet'.quiet =>
                          \A k \in SendKeys : k = routerRet'.chatID =>
                              routerRet'.server = ExpectedTarget(k)'
       ]_vars

\* C3 witness: a second SendMessage in a row has failed over: the primary is
\* marked down while its server runs, the second successor answered, both
\* times, and no call interleaved with the second.
C3_Witness ==
    /\ routerRet.ok /\ routerRet.quiet
    /\ routerRet.attempts = 2
    /\ routerRet.server = NodeU
    /\ connections = [a \in Addresses |->
                         [conn |-> "open", healthy |-> a # "h2"]]
    /\ srv = [a \in Addresses |-> "up"]
    /\ clientStats.FailoverCount = 2 /\ clientStats.PrimaryHits = 0

\* C8 (as stated): when SendMessage reaches a node whose connection is
\* unhealthy it does not give the node up: it goes on to open the
\* connection again - without any MarkServerUp.
C8_UnhealthyReopens ==
    [][\A g \in Senders :
          (spc[g] = "check" /\ spc'[g] # "check" /\ ~ConnOf(g).healthy)
              => spc'[g] # "mark"]_vars


-----------------------------------------------------------------------------
(* Further claims about the cache, checked under CacheSpec.                *)

\* The step is a GetOrCreate call that returned.
GetOrCreateStep == pc' = pc /\ ret'.op = "GetOrCreate"

\* The step is the first section of goroutine t's AddMessage (its lookup).
AddMessageGetStep(t) == pc[t] = "idle" /\ pc'[t] = "append"

\* The step is the return of goroutine t's AddMessage.
AddMessageReturn(t) == pc[t] = "append" /\ pc'[t] = "idle"

\* The step is a GetOrCreate or the lookup of an AddMessage that got stuck
\* in a capacity loop.
SpinStep == \E t \in Threads : pc[t] = "idle" /\ pc'[t] = "spin"

\* C11: in every state CacheHits = L1Hits + L2Hits and TotalRequests =
\* CacheHits + CacheMisses; each GetOrCreate and each AddMessage adds exactly
\* one to TotalRequests, the append of AddMessage adding nothing.
C11_CounterConsistency ==
    /\ [](/\ stats.CacheHits = stats.L1Hits + stats.L2Hits
          /\ stats.TotalRequests = stats.CacheHits + stats.CacheMisses)
    /\ [][/\ GetOrCreateStep => stats'.TotalRequests = stats.TotalRequests + 1
          /\ \A t \in Threads :
                 /\ AddMessageGetStep(t) =>
                        stats'.TotalRequests = stats.TotalRequests + 1
                 /\ AddMessageReturn(t) => stats' = stats
       ]_vars

\* C11 witness: an AddMessage has returned after misses and a hit in L2.
C11_Witness ==
    /\ ret.op = "AddMessage" /\ ret.level = "L2"
    /\ stats.L2Hits = 1 /\ stats.CacheMisses = 2 /\ stats.TotalRequests = 3


IsPrefix(a, b) == Len(a) <= Len(b) /\ SubSeq(b, 1, Len(a)) = a

\* Across the step, id has moved to the front of L1, and the other ids keep
\* their order from most to least recently used (L1 front to back, then L2
\* front to back), the least recently used ones dropping off the end; if id
\* was in L1 no other id has moved at all.
Accessed(id) ==
    /\ l1List' # <<>> /\ Head(l1List') = id
    /\ IsPrefix(Tail(l1List' \o l2List'), RemoveElem(l1List \o l2List, id))
    /\ id \in SeqToSet(l1List) =>
           /\ RemoveElem(l1List', id) = RemoveElem(l1List, id)
           /\ l2List' = l2List

\* The critical section of GetOrCreate, called directly or by AddMessage,
\* leaves the id at the front of L1 and the tiers in order of recency.
C12_AtLookup ==
    [][/\ GetOrCreateStep => Accessed(ret'.chatID)
       /\ \A t \in Threads : AddMessageGetStep(t) => Accessed(held'[t].chatID)
      ]_vars

\* C12: when GetOrCreate(id) or AddMessage(id, msg) returns, id is at the
\* front of L1, whether it was found in L1, in L2 or not at all; a hit in L1
\* moves no other id, and each tier stays ordered from most to least
\* recently accessed.
C12_LRUOrder ==
    [][/\ GetOrCreateStep => Accessed(ret'.chatID)
       /\ \A t \in Threads :
              /\ AddMessageGetStep(t) => Accessed(held'[t].chatID)
              /\ AddMessageReturn(t) =>
                     l1List' # <<>> /\ Head(l1List') = held[t].chatID
      ]_vars


\* The chat id is in one of the tiers; the session object stored under it.
Resident(id) == id \in (DOMAIN l1Cache) \cup (DOMAIN l2Cache)
RefOf(id) == IF id \in DOMAIN l1Cache THEN l1Cache[id] ELSE l2Cache[id]

\* The step is a GetSession call.
GetSessionStep == pc' = pc /\ ret'.op = "GetSession"

\* C13: while a chat id stays resident, through promotions and demotions,
\* the session object stored under it is the same one and keeps the messages
\* appended so far, in order; GetOrCreate, AddMessage and GetSession on a
\* resident id return that object, so a hit never creates a fresh session.
C13_SessionIdentity ==
    [][/\ \A id \in ChatIDs : (Resident(id) /\ Resident(id)') =>
              /\ RefOf(id)' = RefOf(id)
              /\ sessions'[RefOf(id)].ChatID = id
              /\ IsPrefix(sessions[RefOf(id)].Messages, sessions'[RefOf(id)].Messages)
       /\ (GetOrCreateStep /\ Resident(ret'.chatID)) =>
              ret'.session = RefOf(ret'.chatID)
       /\ (GetSessionStep /\ Resident(ret'.chatID)) =>
              ret'.ok /\ ret'.session = RefOf(ret'.chatID)
       /\ \A t \in Threads :
              /\ (AddMessageGetStep(t) /\ Resident(held'[t].chatID)) =>
                     held'[t].session = RefOf(held'[t].chatID)
              /\ AddMessageReturn(t) => ret'.session = held[t].session
      ]_vars

\* C13 witness: a session that has a message was demoted to L2 and promoted
\* back by the call that has just returned it.
C13_Witness ==
    /\ ret.op = "GetOrCreate" /\ ret.level = "L2"
    /\ stats.Demotions > 0
    /\ ret.chatID \in DOMAIN l1Cache /\ l1Cache[ret.chatID] = ret.session
    /\ sessions[ret.session].Messages # <<>>


\* The goroutines whose AddMessage appends to session object r in this step.
Appenders(r) == {t \in Threads : AddMessageReturn(t) /\ held[t].session = r}

NoDuplicates(seq) == \A i, j \in 1..Len(seq) : i # j => seq[i] # seq[j]

\* C14: the messages of a session are the messages passed to AddMessage for
\* its chat id, in the order of the calls: every AddMessage puts its message
\* at the end of the session it looked up, and no step reorders, drops or
\* duplicates a message of a session.
C14_MessageOrder ==
    /\ [](\A r \in DOMAIN sessions : NoDuplicates(sessions[r].Messages))
    /\ [][/\ \A r \in (DOMAIN sessions) \cap (DOMAIN sessions') :
                 IF Appenders(r) = {}
                 THEN sessions'[r].Messages = sessions[r].Messages
                 ELSE \E t \in Appenders(r) :
                          /\ held[t].chatID = sessions[r].ChatID
                          /\ sessions'[r].Messages =
                                 Append(sessions[r].Messages, held[t].msg)
          /\ \A r \in (DOMAIN sessions') \ (DOMAIN sessions) :
                 sessions'[r].Messages = <<>>
       ]_vars

\* C14 witness: a resident session holds the messages of two AddMessage
\* calls, separated by a demotion and a promotion.
C14_Witness ==
    \E id \in DOMAIN l1Cache :
        /\ Len(sessions[l1Cache[id]].Messages) = 2
        /\ sessions[l1Cache[id]].Messages[1] < sessions[l1Cache[id]].Messages[2]
        /\ stats.L2Hits > 0 /\ ret.op = "AddMessage"

\* C15: in every session MessageCount equals the number of messages: a fresh
\* session has neither, and each AddMessage adds one to both.
C15_CountMatches ==
    \A r \in DOMAIN sessions : sessions[r].MessageCount = Len(sessions[r].Messages)

\* C15 witness: a session has received two messages.
C15_Witness ==
    \E r \in DOMAIN sessions : sessions[r].MessageCount = 2 /\ ret.op = "AddMessage"


\* The tier a chat id is resident in.
TierOf(id) ==
    IF id \in DOMAIN l1Cache THEN "L1"
    ELSE IF id \in DOMAIN l2Cache THEN "L2"
    ELSE "MISS"

\* C16: the level GetOrCreate and AddMessage return, and PostMessage reports
\* as cache location, is the tier the id was in before the access: MISS if it
\* was absent (a fresh empty session is created), L1 or L2 if it was there -
\* L2 even though the session is in L1 when the call returns.
C16_TierBeforeAccess ==
    [][/\ GetOrCreateStep =>
              /\ ret'.level = TierOf(ret'.chatID)
              /\ ret'.chatID \in DOMAIN l1Cache'
              /\ TierOf(ret'.chatID) = "MISS" =>
                     /\ ret'.session \notin DOMAIN sessions
                     /\ sessions'[ret'.session] =
                            [ChatID |-> ret'.chatID, Messages |-> <<>>, MessageCount |-> 0]
       /\ \A t \in Threads :
              /\ AddMessageGetStep(t) =>
                     /\ held'[t].level = TierOf(held'[t].chatID)
                     /\ held'[t].chatID \in DOMAIN l1Cache'
              /\ AddMessageReturn(t) =>
                     /\ ret'.level = held[t].level
                     /\ cacheLocation(ret'.level) \in {"CACHE_L1", "CACHE_L2", "CACHE_MISS"}
                     /\ cacheLocation(ret'.level) = "CACHE_L1" <=> held[t].level = "L1"
                     /\ cacheLocation(ret'.level) = "CACHE_L2" <=> held[t].level = "L2"
      ]_vars

\* C16 witness: an AddMessage has returned L2 for a session that is in L1.
C16_Witness ==
    /\ ret.op = "AddMessage" /\ ret.level = "L2"
    /\ ret.chatID \in DOMAIN l1Cache /\ l1Cache[ret.chatID] = ret.session


\* C17: GetSession returns the session with L1 or L2 and true according to
\* the tier the id is in, or nil, MISS and false when it is in neither, and
\* changes neither the membership nor the order of a tier nor any counter.
C17_GetSessionReadOnly ==
    [][GetSessionStep =>
          /\ UNCHANGED <<l1Capacity, l2Capacity, l1Cache, l1List, l2Cache, l2List,
                         stats, sessions>>
          /\ ret'.level = TierOf(ret'.chatID)
          /\ ret'.ok <=> Resident(ret'.chatID)
          /\ ret'.session = IF Resident(ret'.chatID) THEN RefOf(ret'.chatID) ELSE 0
      ]_vars

\* C17 witness: GetSession has found a session in L2 behind a full L1 of two.
C17_Witness ==
    /\ ret.op = "GetSession" /\ ret.level = "L2" /\ ret.ok
    /\ ret.chatID \in DOMAIN l2Cache
    /\ Len(l1List) = 2 /\ stats.Demotions = 1


\* The step is a GetCacheInfo call.
GetCacheInfoStep == pc' = pc /\ ret'.op = "GetCacheInfo"

\* C18: GetCacheInfo (and GetCacheStats, which copies it) lists the ids of
\* each tier from front to back, most recently accessed first.
C18_SnapshotOrder ==
    [][GetCacheInfoStep => (ret'.L1Chats = l1List /\ ret'.L2Chats = l2List)]_vars


\* The step is a Clear call.
ClearStep == pc' = pc /\ ret'.op = "Clear"

\* C19: Clear leaves both tiers empty, every id absent, and every counter
\* as it was; the GetOrCreate that follows a Clear is a miss that creates a
\* fresh empty session, also for an id that was resident before.
C19_Clear ==
    [][/\ ClearStep =>
              /\ l1List' = <<>> /\ l2List' = <<>>
              /\ DOMAIN l1Cache' = {} /\ DOMAIN l2Cache' = {}
              /\ \A id \in ChatIDs : ~Resident(id)'
              /\ stats' = stats
       /\ (ret.op = "Clear" /\ l1List = <<>> /\ l2List = <<>> /\ GetOrCreateStep) =>
              /\ ret'.level = "MISS"
              /\ stats'.CacheMisses = stats.CacheMisses + 1
              /\ ret'.session \notin DOMAIN sessions
              /\ sessions'[ret'.session].Messages = <<>>
              /\ sessions'[ret'.session].MessageCount = 0
      ]_vars

\* C19 witness: an id has missed a second time with nothing evicted, so a
\* Clear came between; the session created is not the one the id had before,
\* which an AddMessage in progress still holds.
C19_Witness ==
    /\ ret.op = "GetOrCreate" /\ ret.level = "MISS"
    /\ stats.CacheMisses = 2 /\ stats.TotalRequests = 2 /\ stats.Evictions = 0
    /\ \E t \in Threads :
           /\ pc[t] = "append"
           /\ held[t].chatID = ret.chatID
           /\ held[t].session # ret.session


-----------------------------------------------------------------------------
(* Further claims about the ring, checked under RingSpec.                  *)

\* C20: AddNode of a node id that is already in the ring, with any capacity
\* and address, leaves the virtual nodes, the node count and the capacity
\* and address of the id as they were after the first AddNode.
C20_AddNodeIdempotent ==
    /\ \A id \in DOMAIN nodeCapacity, w \in 0..MaxWeight, a \in Addresses :
           addNode(Ring, id, w, a) = {Ring}
    /\ (ringRet.op = "AddNode" /\ ringRet.nodeID \in DOMAIN ringRet.before.nodeCapacity) =>
           /\ Ring = ringRet.before
           /\ GetNodeCount(Ring) = GetNodeCount(ringRet.before)
           /\ GetVirtualNodeCount(Ring) = GetVirtualNodeCount(ringRet.before)

\* C20 witness: AddNode has been called for an id already in a ring of two
\* nodes, and another capacity and another address than the id's exist.
C20_Witness ==
    /\ ringRet.op = "AddNode"
    /\ ringRet.nodeID \in DOMAIN ringRet.before.nodeCapacity
    /\ Cardinality(DOMAIN nodeCapacity) = 2
    /\ \E w \in 1..MaxWeight, a \in Addresses :
           w # nodeCapacity[ringRet.nodeID] /\ a # nodeAddress[ringRet.nodeID]


\* The virtual nodes of sequence ns that node id does not own, in order.
OthersOf(ns, id) == SelectSeq(ns, LAMBDA v : v.NodeID # id)

\* C21: RemoveNode of a node in the ring removes all its virtual nodes and
\* its capacity and address entries, and leaves the virtual nodes of the
\* other nodes, their order and their entries as they were; RemoveNode of an
\* id that is not in the ring, such as a second RemoveNode, changes nothing.
C21_RemoveNodeFrame ==
    /\ \A id \in NodeIDs \ DOMAIN nodeCapacity : removeNode(Ring, id) = Ring
    /\ \A id \in NodeIDs :
           removeNode(removeNode(Ring, id), id) = removeNode(Ring, id)
    /\ ringRet.op = "RemoveNode" =>
           IF ringRet.nodeID \in DOMAIN ringRet.before.nodeCapacity
           THEN /\ \A i \in 1..Len(nodes) : nodes[i].NodeID # ringRet.nodeID
                /\ nodes = OthersOf(ringRet.before.nodes, ringRet.nodeID)
                /\ Len(nodes) = Len(ringRet.before.nodes)
                                    - ringRet.before.nodeCapacity[ringRet.nodeID]
                /\ DOMAIN nodeCapacity =
                       (DOMAIN ringRet.before.nodeCapacity) \ {ringRet.nodeID}
                /\ DOMAIN nodeAddress =
                       (DOMAIN ringRet.before.nodeAddress) \ {ringRet.nodeID}
                /\ \A id \in DOMAIN nodeCapacity :
                       /\ nodeCapacity[id] = ringRet.before.nodeCapacity[id]
                       /\ nodeAddress[id] = ringRet.before.nodeAddress[id]
                /\ replicas = ringRet.before.replicas
           ELSE Ring = ringRet.before

\* C21 witness: a node with two virtual nodes was removed from between the
\* virtual nodes of two other nodes, which stay.
C21_Witness ==
    /\ ringRet.op = "RemoveNode"
    /\ ringRet.nodeID \in DOMAIN ringRet.before.nodeCapacity
    /\ ringRet.before.nodeCapacity[ringRet.nodeID] = 2
    /\ Cardinality(DOMAIN nodeCapacity) = 2
    /\ \E i, j, k \in 1..Len(ringRet.before.nodes) :
           /\ i < j /\ j < k
           /\ ringRet.before.nodes[i].NodeID # ringRet.nodeID
           /\ ringRet.before.nodes[j].NodeID = ringRet.nodeID
           /\ ringRet.before.nodes[k].NodeID # ringRet.nodeID


\* The rings that a fresh ring may become when the nodes of the ring are
\* added to it in the order o, each with its weight and address.
RECURSIVE Replay(_, _)
Replay(o, n) ==
    IF n = 0 THEN {NewHashRing(replicas)}
    ELSE UNION {addNode(r, o[n], nodeCapacity[o[n]], nodeAddress[o[n]]) :
                   r \in Replay(o, n - 1)}

\* C22 (as stated): every ring reached by some sequence of AddNode and
\* RemoveNode gives each key the owner that any other sequence ending with
\* the same nodes and weights gives it, also when virtual nodes of different
\* owners have the same hash.
C22_StableUnderReAdd ==
    \A o \in Orders(DOMAIN nodeCapacity) : \A r \in Replay(o, Len(o)) :
        \A k \in Keys : getNode(r, k).nodeID = getNode(Ring, k).nodeID



\* The sum of the weights in the map caps.
RECURSIVE SumOfWeights(_)
SumOfWeights(caps) ==
    IF DOMAIN caps = {} THEN 0
    ELSE LET id == CHOOSE x \in DOMAIN caps : TRUE
         IN caps[id] + SumOfWeights(Del(caps, id))

\* Every node of ring r owns exactly weight virtual nodes, numbered from 0,
\* and the two counts are the sum of the weights and the number of owners.
WeightsMatch(r) ==
    /\ \A id \in DOMAIN r.nodeCapacity :
           /\ r.nodeCapacity[id] >= 1
           /\ Cardinality({j \in 1..Len(r.nodes) : r.nodes[j].NodeID = id})
                  = r.nodeCapacity[id]
           /\ {r.nodes[j].VNodeIdx : j \in {n \in 1..Len(r.nodes) : r.nodes[n].NodeID = id}}
                  = 0..(r.nodeCapacity[id] - 1)
    /\ GetVirtualNodeCount(r) = SumOfWeights(r.nodeCapacity)
    /\ GetNodeCount(r) = Cardinality({r.nodes[j].NodeID : j \in 1..Len(r.nodes)})

\* C24: each node in the ring owns exactly weight virtual nodes with indices
\* 0..weight-1, GetVirtualNodeCount is the sum of the weights and
\* GetNodeCount the number of distinct owners; AddNode with a weight below 1
\* gives the node the ring's default number of replicas.
C24_WeightsAndCounts ==
    /\ WeightsMatch(Ring)
    /\ \A id \in NodeIDs \ DOMAIN nodeCapacity : \A capacity \in {-1, 0} :
           \A r \in addNode(Ring, id, capacity, "h1") :
               /\ r.nodeCapacity[id] = replicas
               /\ WeightsMatch(r)

\* C24 witness: three nodes of different weights are in the ring after an
\* AddNode.
C24_Witness ==
    /\ ringRet.op = "AddNode"
    /\ Cardinality(DOMAIN nodeCapacity) = 3
    /\ \E a, b \in DOMAIN nodeCapacity : nodeCapacity[a] # nodeCapacity[b]
    /\ Len(nodes) = 5

-----------------------------------------------------------------------------
(* Claims about the ring under concurrent callers, checked under           *)
(* RingLockSpec.                                                           *)

SortedByHash(ns) == \A i \in 1..(Len(ns) - 1) : ~U32Less(ns[i + 1].Hash, ns[i].Hash)

\* The virtual nodes of node id in ns, as a set of replica indices, and
\* how many of them there are.
IndicesOf(ns, id) == {ns[i].VNodeIdx : i \in {j \in 1..Len(ns) : ns[j].NodeID = id}}
CountOf(ns, id) == Cardinality({j \in 1..Len(ns) : ns[j].NodeID = id})

\* A ring no write is half-way through: sorted, every node in the maps has
\* all its virtual nodes and every virtual node has its node in the maps.
Whole(r) ==
    /\ SortedByHash(r.nodes)
    /\ DOMAIN r.nodeAddress = DOMAIN r.nodeCapacity
    /\ \A i \in 1..Len(r.nodes) : r.nodes[i].NodeID \in DOMAIN r.nodeCapacity
    /\ \A id \in DOMAIN r.nodeCapacity :
           /\ CountOf(r.nodes, id) = r.nodeCapacity[id]
           /\ IndicesOf(r.nodes, id) = 0..(r.nodeCapacity[id] - 1)

\* What the write of goroutine w may make of the ring it found, as one
\* step.
PostState(w) ==
    IF wloc[w].op = "AddNode"
    THEN addNode(wloc[w].before, wloc[w].nodeID, wloc[w].capacity, wloc[w].address)
    ELSE {removeNode(wloc[w].before, wloc[w].nodeID)}

\* The ring in every state a reader can observe: writes are serialised, a
\* reader holds hr.mu only while no writer does, the ring is whole whenever
\* no writer holds hr.mu, and a write leaves the full post-state.
ReadersSeeWholeRing ==
    /\ \A w \in Writers : wpc[w] # "idle" <=> hrmu.writer = w
    /\ \A t \in Readers : rpc[t] = "read" <=> t \in hrmu.readers
    /\ hrmu.readers # {} => hrmu.writer = None
    /\ hrmu.writer = None => Whole(Ring)
    /\ \A w \in Writers : wpc[w] = "unlock" => Ring \in PostState(w)

\* C23 (as stated): the array is sorted in every state a reader can observe,
\* a reader sees the full state before or after a write, and a GetNode or
\* GetNodes called during a write to a ring that had virtual nodes before
\* the write never finds no node.
C23_NeverAbsent ==
    /\ ReadersSeeWholeRing
    /\ \A t \in Readers :
           (rloc[t].op # None /\ rloc[t].done /\ rloc[t].during /\ rloc[t].nonEmpty)
               => rloc[t].ok

\* C23 (amended): the array is sorted in every state a reader can observe,
\* a reader sees the full state before or after a write, and a GetNode or
\* GetNodes finds no node only when the ring it reads has no node at all.
C23_ReadersSeeWholeRing ==
    /\ []ReadersSeeWholeRing
    /\ [][\A t \in Readers :
            (rpc[t] = "read" /\ rpc'[t] = "idle")
                => (rloc'[t].ok <=> DOMAIN nodeCapacity # {})]_vars

\* C23 witness: a GetNode called while AddNode was adding a second node has
\* returned a node, and this state has another AddNode half-way through its
\* loop, its virtual nodes appended behind larger hashes.
C23_Witness ==
    /\ \E t \in Readers :
           /\ rloc[t].op = "GetNode" /\ rloc[t].done
           /\ rloc[t].during /\ rloc[t].nonEmpty /\ rloc[t].ok
    /\ \E w \in Writers : wpc[w] = "append" /\ wloc[w].i >= 1
    /\ ~SortedByHash(nodes)
    /\ Cardinality(DOMAIN nodeCapacity) = 2


-----------------------------------------------------------------------------
(* Further claims about the smart client, checked under RouterSpec, and    *)
(* C29 and C30 under ProbeSpec.                                            *)

\* C25: a SendMessage that finds the ring empty returns "no servers
\* available" without trying any server, adds exactly 1 to FailedRequests
\* and leaves SuccessRequests, PrimaryHits and FailoverCount as they were.
C25_NoBackends ==
    /\ [](routerRet.err = "NoBackends" => (~routerRet.ok /\ routerRet.attempts = 0))
    /\ [][\A g \in Senders :
            /\ GotNodes(g) => (spc'[g] = "noServers" <=> Len(nodes) = 0)
            /\ spc'[g] = "noServers" => spc[g] \in {"getNodes", "noServers"}
            /\ (spc[g] = "noServers" /\ spc'[g] # "noServers") =>
                  /\ spc'[g] = "idle"
                  /\ routerRet'.err = "NoBackends"
                  /\ clientStats'.FailedRequests = clientStats.FailedRequests + 1
                  /\ clientStats'.TotalRequests = clientStats.TotalRequests
                  /\ clientStats'.SuccessRequests = clientStats.SuccessRequests
                  /\ clientStats'.PrimaryHits = clientStats.PrimaryHits
                  /\ clientStats'.FailoverCount = clientStats.FailoverCount
                  /\ connections' = connections]_vars

\* C25 witness: after a SendMessage that succeeded the ring was emptied, and
\* the next SendMessage has just returned "no servers available".
C25_Witness ==
    /\ routerRet.err = "NoBackends"
    /\ Len(nodes) = 0
    /\ clientStats.SuccessRequests = 1
    /\ clientStats.FailedRequests = 1


\* C26 (as stated): a SendMessage that tried every node of its list without
\* success returns "all servers exhausted" wrapping the error of its last
\* attempt, whatever that attempt failed with, a rejection included.
C26_CarriesLastError ==
    routerRet.err = "AllExhausted" =>
        /\ routerRet.attempts >= 1
        /\ routerRet.cause # "nil"


\* C27 (as stated): an attempt answered with success = false leaves the
\* healthy flag of the connection it used as it was; SendMessage clears a
\* healthy flag only after a transport error or a failed dial.
C27_RejectionKeepsHealth ==
    [][\A g \in Senders : (spc[g] = "mark" /\ spc'[g] # "mark") =>
          /\ sloc[g].outcome = "rejected" => connections' = connections
          /\ \A a \in DOMAIN connections :
                 (connections[a].healthy /\ ~connections'[a].healthy)
                     => sloc[g].outcome \in {"transport", "dialFailed"}]_vars


\* The ids of the nodes of a successor list.
IdsOf(ns) == {ns[j].NodeID : j \in 1..Len(ns)}

\* C28: once RemoveServer has removed a registered server, the ring has no
\* virtual node and no entry of it and the connection at its address is
\* closed and out of the table; until it is added again GetTargetServer
\* does not return it and a SendMessage that gets its list gets one without
\* it and tries only nodes of its list.
C28_Deregistered ==
    /\ [](\A id \in NodeIDs \ DOMAIN nodeCapacity :
            /\ id \notin DOMAIN nodeAddress
            /\ \A i \in 1..Len(nodes) : nodes[i].NodeID # id
            /\ \A k \in Keys \cup SendKeys : getTargetServer(Ring, k).nodeID # id)
    /\ [][\A r \in Callers, id \in DOMAIN nodeAddress :
            (spc[r] = "idle" /\ spc'[r] = "rmRing" /\ sloc'[r].chatID = id) =>
               /\ nodeAddress[id] \notin DOMAIN connections'
               /\ \A g \in Callers :
                     (spc[g] # "idle" /\ sloc[g].conn = "table"
                      /\ TargetAddress(g) = nodeAddress[id]
                      /\ connections[nodeAddress[id]].conn = "open")
                         => detached'[sloc'[g].conn].conn = "closed"]_vars
    /\ [][\A id \in DOMAIN nodeCapacity : id \notin DOMAIN nodeCapacity' =>
            nodeAddress[id] \notin DOMAIN connections']_vars
    /\ [][\A g \in Senders :
            /\ GotNodes(g) => IdsOf(sloc'[g].nodes) \subseteq DOMAIN nodeCapacity
            /\ (spc[g] \in LoopPcs /\ spc'[g] # "idle") =>
                  sloc'[g].nodes = sloc[g].nodes]_vars

\* C28 witness: a server was removed while a SendMessage that has it in its
\* list held its connection: it is out of the ring, the connection is
\* closed and out of the table, and the other server is still registered.
C28_Witness ==
    \E g \in Senders :
        /\ spc[g] = "rpc"
        /\ CurrentNode(g).NodeID = NodeB
        /\ CurrentNode(g).Address \notin DOMAIN connections
        /\ ConnOf(g).conn = "closed"
        /\ DOMAIN nodeCapacity = {NodeU}


\* What a step that only sets the healthy flag of the connection of server
\* id to h leaves as it was: the ring, and with it the answer of every
\* GetNode and GetNodes, the counters, and every connection but the one at
\* the address of id, which keeps its client.
OnlyHealthFlag(id, h) ==
    /\ Ring' = Ring
    /\ GetNodeCount(Ring') = GetNodeCount(Ring)
    /\ \A k \in SendKeys :
           /\ getTargetServer(Ring', k) = getTargetServer(Ring, k)
           /\ getNodes(Ring', k, MaxRetries) = getNodes(Ring, k, MaxRetries)
    /\ clientStats' = clientStats
    /\ detached' = detached
    /\ DOMAIN connections' = DOMAIN connections
    /\ \A a \in DOMAIN connections :
           IF id \in DOMAIN nodeAddress /\ a = nodeAddress[id]
           THEN connections'[a] = [connections[a] EXCEPT !.healthy = h]
           ELSE connections'[a] = connections[a]

\* C29: MarkServerDown and MarkServerUp change nothing but the healthy flag
\* of the connection of the server they name: ring, node count, target and
\* successors of every key, the other connections and the counters are the
\* same before and after; GetTargetServer returns what GetNode returns and
\* changes nothing of the client.
C29_MarkOnlyHealth ==
    /\ [](probeRet.op = "GetTargetServer" =>
            probeRet.result = getNode(Ring, probeRet.arg))
    /\ [][\A id \in NodeIDs :
            /\ MarkServerDown(id) => OnlyHealthFlag(id, FALSE)
            /\ MarkServerUp(id) => OnlyHealthFlag(id, TRUE)]_vars
    /\ [][\A k \in SendKeys : GetTargetServer(k) =>
            /\ Ring' = Ring
            /\ connections' = connections
            /\ detached' = detached
            /\ clientStats' = clientStats
            /\ srv' = srv /\ spc' = spc /\ cmu' = cmu]_vars

\* C29 witness: no message has been sent, so no attempt has cleared a flag;
\* one of two connections with a client has been marked down, the other is
\* healthy, and both servers are in the ring.
C29_Witness ==
    /\ clientStats = ZeroClientStats
    /\ Cardinality(DOMAIN nodeCapacity) = 2
    /\ \E a, b \in DOMAIN connections :
           /\ connections[a] = [conn |-> "open", healthy |-> FALSE]
           /\ connections[b] = [conn |-> "open", healthy |-> TRUE]


\* C30 (as stated): HealthCheck of a registered server never returns an
\* error; when the probe call fails it reports healthy = false with a nil
\* error.
C30_NoTransportError ==
    (probeRet.op = "HealthCheck" /\ probeRet.arg \in DOMAIN nodeAddress)
        => probeRet.result.err = "nil"


-----------------------------------------------------------------------------
(* Claims about demotion, eviction and promotion in the cache, checked     *)
(* under CacheSpec.                                                        *)

\* The step is the critical section of a GetOrCreate, called directly or by
\* AddMessage, whether it returns or gets stuck.
LookupStep == stats'.TotalRequests = stats.TotalRequests + 1

\* The lookup of the step did not find its id in L1: it inserts the id at
\* the front of L1, after a miss or a hit in L2.
InsertStep == LookupStep /\ stats'.L1Hits = stats.L1Hits

\* The sequence s without its last element.
ButLast(s) == SubSeq(s, 1, Len(s) - 1)

\* C33 (as stated): an insertion at the front of a full L1 takes the back of
\* L1 out of L1 and puts it at the front of L2, adding 1 to Demotions; the
\* other entries of L1 keep their order behind the new front. An insertion
\* into an L1 that is not full demotes nothing.
C33_Demotion ==
    [][InsertStep =>
          IF Len(l1List) = l1Capacity
          THEN /\ stats'.Demotions = stats.Demotions + 1
               /\ \E id \in ChatIDs : l1List' = <<id>> \o ButLast(l1List)
               /\ l2List' # <<>>
               /\ Head(l2List') = Back(l1List)
               /\ l2Cache'[Head(l2List')] = l1Cache[Back(l1List)]
          ELSE /\ stats'.Demotions = stats.Demotions
               /\ \E id \in ChatIDs : l1List' = <<id>> \o l1List]_vars


\* The ids that are in a tier before the step and in none after it.
Gone == (InL1 \cup InL2) \ (DOMAIN l1Cache' \cup DOMAIN l2Cache')

\* C34 (as stated): a lookup discards an entry only when its demotion finds
\* L2 full, the entry discarded is the back of L2, Evictions grows by 1 for
\* each entry discarded, and it does not grow while L2 has room.
C34_Eviction ==
    [][/\ stats'.Evictions # stats.Evictions => LookupStep
       /\ LookupStep =>
              /\ Cardinality(Gone) = stats'.Evictions - stats.Evictions
              /\ Gone # {} =>
                     /\ stats'.Demotions > stats.Demotions
                     /\ Len(l2List) = l2Capacity
                     /\ Gone = {Back(l2List)}
              /\ Len(l2List) < l2Capacity => stats'.Evictions = stats.Evictions
      ]_vars


\* The step is a lookup that found its id in L2.
L2HitStep == stats'.L2Hits = stats.L2Hits + 1

\* C35: a lookup that hits L2 evicts nothing: the id leaves L2 and is at the
\* front of L1 afterwards, the entry demoted from a full L1 is at the front
\* of L2, Evictions is unchanged, L2 has not grown, and the ids in the two
\* tiers together are the same as before.
C35_PromotionNeverEvicts ==
    [][L2HitStep =>
          /\ stats'.Evictions = stats.Evictions
          /\ Len(l2List') <= Len(l2List)
          /\ DOMAIN l1Cache' \cup DOMAIN l2Cache' = InL1 \cup InL2
          /\ Head(l1List') \in InL2
          /\ Head(l1List') \notin DOMAIN l2Cache'
          /\ l1Cache'[Head(l1List')] = l2Cache[Head(l1List')]
          /\ IF Len(l1List) = l1Capacity
             THEN /\ stats'.Demotions = stats.Demotions + 1
                  /\ Head(l2List') = Back(l1List)
                  /\ Len(l2List') = Len(l2List)
             ELSE /\ stats'.Demotions = stats.Demotions
                  /\ Len(l2List') = Len(l2List) - 1]_vars

\* C35 witness: with capacities (1,1), after GetOrCreate of a, b and a again
\* the last call hit L2: a is in L1, b took its place in L2, two demotions
\* and no eviction.
C35_Witness ==
    /\ ret.op = "GetOrCreate" /\ ret.level = LevelL2
    /\ l1List = <<"a">> /\ l2List = <<"b">>
    /\ stats.Demotions = 2 /\ stats.L2Hits = 1 /\ stats.Evictions = 0


\* The ids that are in no tier before the step and in one after it.
Arrived == (DOMAIN l1Cache' \cup DOMAIN l2Cache') \ (InL1 \cup InL2)

\* C36 (as stated), checked under CacheNoClearSpec: while Clear is not
\* called, an id enters the tiers only by a miss and leaves them only as the
\* back of L2 discarded by an eviction, never from L1, so that CacheMisses
\* is the number of entries in the two tiers plus Evictions in every state.
C36_CreatedDestroyed ==
    /\ [](stats.CacheMisses = Len(l1List) + Len(l2List) + stats.Evictions)
    /\ [][/\ Arrived # {} => stats'.CacheMisses = stats.CacheMisses + 1
          /\ Gone \cap InL1 = {}
          /\ Gone # {} => /\ stats'.Evictions = stats.Evictions + 1
                          /\ l2List # <<>>
                          /\ Gone = {Back(l2List)}]_vars


\* The step is a lookup that found its id in L1.
L1HitStep == stats'.L1Hits = stats.L1Hits + 1

\* C38: in a cache with both capacities at least 1 no GetOrCreate gets stuck
\* in a capacity loop; each performs at most one demotion and at most one
\* eviction, and a hit in L1 performs neither.
C38_BoundedWork ==
    /\ []((l1Capacity >= 1 /\ l2Capacity >= 1) => ~Spinning)
    /\ [][(l1Capacity >= 1 /\ l2Capacity >= 1 /\ LookupStep) =>
            /\ stats'.Demotions - stats.Demotions \in {0, 1}
            /\ stats'.Evictions - stats.Evictions \in {0, 1}
            /\ stats'.Evictions - stats.Evictions <= stats'.Demotions - stats.Demotions
            /\ L1HitStep => (/\ stats'.Demotions = stats.Demotions
                             /\ stats'.Evictions = stats.Evictions
                             /\ SeqToSet(l1List') = SeqToSet(l1List)
                             /\ l2List' = l2List)]_vars

\* C38 witness: with capacities (1,1) the third miss has demoted one entry
\* and evicted one, and has returned.
C38_Witness ==
    /\ l1Capacity = 1 /\ l2Capacity = 1
    /\ ret.op = "GetOrCreate" /\ ret.level = LevelMiss
    /\ stats.CacheMisses = 3 /\ stats.Demotions = 2 /\ stats.Evictions = 1
    /\ ~Spinning


-----------------------------------------------------------------------------
(* Claims about the connection table of the client, checked under          *)
(* ProbeSpec.                                                              *)

\* The addresses the ring has registered for its nodes.
RegisteredAddresses == {nodeAddress[id] : id \in DOMAIN nodeAddress}

\* C39 (as stated): between the calls, every server in the ring has a
\* connection under its registered address and every connection is at the
\* address of a server in the ring; an AddServer that finds a connection
\* under its address leaves the connection table and its health flags as
\* they are, and RemoveServer of one server leaves the connection of every
\* other registered server in the table, untouched.
C39_TableMatchesRing ==
    /\ []((\A g \in Callers : spc[g] = "idle") =>
             /\ DOMAIN nodeAddress = DOMAIN nodeCapacity
             /\ RegisteredAddresses = DOMAIN connections)
    /\ [][\A g \in Callers :
            (spc[g] = "addDial" /\ spc'[g] = "idle"
             /\ sloc[g].address \in DOMAIN connections) =>
                connections' = connections]_vars
    /\ [][\A r \in Callers, id \in DOMAIN nodeCapacity :
            (spc[r] = "idle" /\ spc'[r] = "rmRing" /\ sloc'[r].chatID = id) =>
               \A o \in DOMAIN nodeAddress \ {id} :
                   nodeAddress[o] \in DOMAIN connections =>
                      /\ nodeAddress[o] \in DOMAIN connections'
                      /\ connections'[nodeAddress[o]] = connections[nodeAddress[o]]]_vars


-----------------------------------------------------------------------------
(* Claims about a stopped server behind the client, checked under          *)
(* BackendSpec.                                                            *)

\* The state of the cache of the server at BackendAddress.
BackendCache == <<l1Cache, l1List, l2Cache, l2List, stats, sessions>>

\* The step is the request of goroutine g reaching the PostMessage of the
\* server at BackendAddress, which tests its healthy flag.
Arrives(g) ==
    /\ spc[g] = "rpc" /\ spc'[g] # "rpc"
    /\ CurrentNode(g).Address = BackendAddress
    /\ ConnOf(g).conn = "open"
    /\ srv[BackendAddress] # "down"

\* C31: once Stop has cleared the healthy flag of the server, a request of
\* SendMessage that reaches its PostMessage is answered with success = false
\* and the message "server is shutting down" and leaves its cache (tiers,
\* sessions, counters) as it is: only a PostMessage that found the flag set
\* goes on to AddMessage; the SendMessage then goes on to the next node of
\* its list, or returns the error when there is none.
C31_StoppedRejects ==
    [][\A g \in Senders :
          /\ (Arrives(g) /\ srv[BackendAddress] = "stopping") =>
                /\ ret'.op = "PostMessage"
                /\ ret'.chatID = sloc[g].chatID
                /\ ~ret'.Success
                /\ ret'.ErrorMessage = "server is shutting down"
                /\ BackendCache' = BackendCache
                /\ clientStats' = clientStats
                /\ spc'[g] = "mark"
                /\ sloc'[g].outcome = "rejected"
          /\ (spc'[g] = "srvAdd" /\ spc[g] # "srvAdd") =>
                (Arrives(g) /\ srv[BackendAddress] = "up")
          /\ BackendCache' # BackendCache => spc[g] \in HandlerPcs
          /\ (spc[g] = "mark" /\ spc'[g] # "mark") =>
                /\ clientStats'.SuccessRequests = clientStats.SuccessRequests
                /\ BackendCache' = BackendCache
                /\ IF sloc[g].i + 1 < Len(sloc[g].nodes)
                   THEN /\ spc'[g] = "read"
                        /\ sloc'[g].nodes = sloc[g].nodes
                        /\ sloc'[g].i = sloc[g].i + 1
                   ELSE spc'[g] = "failed"
          /\ (spc[g] = "failed" /\ spc'[g] # "failed") =>
                /\ ~routerRet'.ok
                /\ routerRet'.err = "AllExhausted"]_vars

\* C31 witness: the server at BackendAddress handled one message and was
\* stopped; it rejected the next request, its cache still holds the one
\* session, and the SendMessage succeeded at the second node of its list.
C31_Witness ==
    /\ srv[BackendAddress] = "stopping"
    /\ stats.TotalRequests = 1 /\ Len(l1List) = 1
    /\ ret.op = "PostMessage" /\ ~ret.Success
    /\ routerRet.ok /\ routerRet.attempts = 2
    /\ routerRet.server = NodeU
    /\ clientStats.FailoverCount = 1 /\ clientStats.PrimaryHits = 1


-----------------------------------------------------------------------------
(* Claims about the statistics of the client under concurrent calls,       *)
(* checked under ConcurrentSpec.                                           *)

\* The calls of SendMessage in progress.
InFlight == {g \in Callers : spc[g] \notin OtherPcs}

\* The counters of ClientStats.
Counters == {"TotalRequests", "SuccessRequests", "FailedRequests",
             "FailoverCount", "PrimaryHits"}

\* C37: every SendMessage adds one to TotalRequests when it starts and one
\* to exactly one of SuccessRequests and FailedRequests when it returns, so
\* TotalRequests is their sum plus the calls in progress (their sum when no
\* call is in progress); SuccessRequests is always PrimaryHits plus
\* FailoverCount; no counter ever decreases; all of it with two goroutines
\* in SendMessage at once.
C37_CounterAccounting ==
    /\ [](clientStats.TotalRequests =
              clientStats.SuccessRequests + clientStats.FailedRequests
                  + Cardinality(InFlight))
    /\ [](clientStats.SuccessRequests =
              clientStats.PrimaryHits + clientStats.FailoverCount)
    /\ [][\A k \in Counters : clientStats'[k] >= clientStats[k]]_vars
    /\ [][/\ clientStats'.TotalRequests - clientStats.TotalRequests \in {0, 1}
          /\ (clientStats'.SuccessRequests + clientStats'.FailedRequests)
                 - (clientStats.SuccessRequests + clientStats.FailedRequests) \in {0, 1}
          /\ \A g \in Callers :
                /\ Started(g) => clientStats'.TotalRequests = clientStats.TotalRequests + 1
                /\ (g \in InFlight /\ ~Returned(g) /\ spc'[g] # spc[g]) =>
                      clientStats' = clientStats
                /\ Returned(g) =>
                      /\ clientStats'.TotalRequests = clientStats.TotalRequests
                      /\ \/ /\ routerRet'.ok
                            /\ clientStats'.SuccessRequests = clientStats.SuccessRequests + 1
                            /\ clientStats'.FailedRequests = clientStats.FailedRequests
                         \/ /\ ~routerRet'.ok
                            /\ clientStats'.SuccessRequests = clientStats.SuccessRequests
                            /\ clientStats'.FailedRequests = clientStats.FailedRequests + 1]_vars

\* C37 witness: two calls were in progress at once; one has returned after a
\* failover while the other is still in its loop.
C37_Witness ==
    /\ spc["s1"] \in LoopPcs /\ spc["s2"] = "idle"
    /\ ~sloc["s1"].quiet
    /\ routerRet.ok /\ ~routerRet.quiet
    /\ clientStats.TotalRequests = 2
    /\ clientStats.SuccessRequests = 1 /\ clientStats.FailoverCount = 1


-----------------------------------------------------------------------------
(* Claims about c.mu and the transports of the client, checked under       *)
(* DialSpec.                                                               *)

\* Goroutine g is in connectToServer or in an RPC.
InNetworkIO(g) == spc[g] \in {"addDial", "dial", "rpc", "hcRPC"}

\* C32 (as stated): no goroutine holds c.mu, as writer or as reader, while
\* it is in connectToServer or in an RPC, neither in AddServer nor in the
\* reconnect of sendToServer; so while one goroutine is connecting, c.mu is
\* free for the others.
C32_NoLockAcrossIO ==
    /\ \A g \in Callers : InNetworkIO(g) => (cmu.writer # g /\ g \notin cmu.readers)
    /\ (\E g \in Callers : InNetworkIO(g)) => canLock(cmu)

\* The step is the reconnect of goroutine g's sendToServer installing the
\* grpc.ClientConn it dialed.
Installs(g) == spc[g] = "dial" /\ spc'[g] = "rpc"

\* C40 (as stated): the reconnect of sendToServer installs a grpc.ClientConn
\* only on a serverConnection that has none (so none is overwritten and left
\* open) and that is still in c.connections; every serverConnection gets at
\* most one from the calls of sendToServer.
C40_SingleTransport ==
    [][\A g \in Callers : Installs(g) =>
          /\ ConnOf(g).conn = "nil"
          /\ sloc[g].conn = "table"]_vars

====
